---- MODULE Spec2Model ----
(***************************************************************************)
(* Cadence (phiresky/cadence): a state-machine model of src/app.js.        *)
(*                                                                         *)
(* StepDetector, AudioEngine and the App controller are modelled as one    *)
(* state machine.  Every event handler of the program is one action; the   *)
(* callbacks a handler invokes synchronously (onSPMChange, onStep) are     *)
(* part of that action.                                                    *)
(*                                                                         *)
(* Numbers.  JavaScript numbers are doubles; the model uses fixed point:   *)
(*   - times are integer milliseconds (Date.now());                        *)
(*   - accelerations are integers in units of 1/AccScale m/s^2;            *)
(*   - rates, the phase error and the phase correction are integers in     *)
(*     units of 1/RateScale;                                               *)
(*   - the smoothing coefficient is an integer number of hundredths.       *)
(* Every product/quotient is rounded to the nearest unit (RoundDiv).       *)
(***************************************************************************)
EXTENDS Integers, Sequences, FiniteSets, TLC

\* ------------------------------------------------------------------------
\* Bounds and resolutions of the model
\* ------------------------------------------------------------------------
AccScale == 1000
RateScale == 10000
\* Date.now() at construction (an offset; the real one is ~1.7e12)
Epoch == 1000
\* the clock is explored up to Epoch + MaxElapsed
MaxElapsed == 4250
MaxSteps == 32        \* cap on stepCount
MaxSamples == 12      \* cap on the number of devicemotion events processed
MaxTimers == 3        \* cap on simultaneously scheduled setInterval timers
MaxPending == 2       \* cap on _toggleSync calls awaiting requestPermission()
MaxTracks == 2        \* cap on the number of track objects ever created

\* ------------------------------------------------------------------------
\* Arithmetic helpers
\* ------------------------------------------------------------------------
\* floor(a/b + 1/2) for b > 0: Math.round() of a quotient
RoundDiv(a, b) == (2 * a + b) \div (2 * b)

Abs(a) == IF a < 0 THEN -a ELSE a

Max2(a, b) == IF a >= b THEN a ELSE b

Min2(a, b) == IF a <= b THEN a ELSE b

RECURSIVE SqrtSearch(_, _, _)
\* largest r in lo..hi with r*r <= n (lo*lo <= n assumed)
SqrtSearch(n, lo, hi) ==
  IF lo >= hi THEN lo
  ELSE LET mid == (lo + hi + 1) \div 2
       IN IF mid * mid <= n THEN SqrtSearch(n, mid, hi) ELSE SqrtSearch(n, lo, mid - 1)

\* Math.sqrt rounded to the nearest unit (n < 2^31, so the root is below 46341)
ISqrt(n) ==
  LET r == SqrtSearch(n, 0, Min2(n, 46340))
  IN IF n - r * r > r THEN r + 1 ELSE r

\* ------------------------------------------------------------------------
\* Program constants (StepDetector)
\* ------------------------------------------------------------------------
minStepInterval == 280
HistoryCap == 30
SpmWindow == 12
MinStamps == 4
MinSPM == 40
MaxSPM == 220
DecayMs == 3000
smoothAlphaPm == 200      \* smoothAlpha = 0.2, in thousandths
baselineAlphaPm == 5      \* baselineAlpha = 0.005, in thousandths
Gravity == (981 * AccScale) \div 100          \* 9.81
DefaultThreshold == (8 * AccScale) \div 10    \* 0.8

\* ------------------------------------------------------------------------
\* Program constants (AudioEngine / App)
\* ------------------------------------------------------------------------
RateOne == RateScale                           \* 1.0
DefaultMinRate == (7 * RateScale) \div 10      \* 0.7
DefaultMaxRate == (14 * RateScale) \div 10     \* 1.4
DefaultSmoothing == 8                          \* 0.08, in hundredths
PhaseGainPc == 40                              \* 0.4, in hundredths
Undefined == -1                                \* `undefined` beat offset

\* ------------------------------------------------------------------------
\* State
\* ------------------------------------------------------------------------
VARIABLES
  \* StepDetector fields
  stepTimestamps, spm, stepCount, smoothed, baseline, threshold,
  lastStepTime, aboveThreshold, active, decayTimer,
  \* browser environment of the detector
  now,            \* Date.now()
  listening,      \* the devicemotion listener is registered on window
  timers,         \* ids of the setInterval timers currently scheduled
  sampleCount,    \* devicemotion events carrying acceleration data so far
  permissionAPI,  \* DeviceMotionEvent.requestPermission exists on this platform
  pendingStart,   \* _toggleSync calls suspended in `await requestPermission()`
  simMode,        \* the simMode checkbox
  \* App fields
  syncing, phaseCorrection, currentBeatOffset, playlist, currentTrackIndex,
  tracks,         \* the track objects ever created: id -> {bpm, beatOffset, detecting}
  created,        \* number of track objects ever created
  pendingLoad,    \* the _playTrack call suspended in `await loadFile()`, or NoLoad
  pendingDetect,  \* the _detectBPM calls suspended in `await BPMDetector.detect()`
  analysed,       \* the file contents the last finished BPMDetector.detect() worked on
  notified,       \* callbacks delivered to the App by the last handler, in order
  \* AudioEngine fields
  originalBPM, targetRate, currentRate, minRate, maxRate, smoothing,
  loaded, playing,
  rafId,          \* _rafId is non-null
  rafPending,     \* a requestAnimationFrame(_smoothLoop) callback is scheduled
  playbackRate,   \* audio.playbackRate
  \* TapBPM
  taps,           \* tapBPM.taps
  \* service worker (sw.js) and its browser environment
  swPhase,        \* lifecycle of this worker: "parsed", "installed", "activated", "redundant"
  caches,         \* CacheStorage: cache name -> urls of the GET requests stored
  online,         \* the network can be reached
  pendingPut,     \* urls of the cache.put() calls still running
  written,        \* urls whose cache.put() has completed
  answered        \* the last fetch event: the request and where its response came from

detVars == <<stepTimestamps, spm, stepCount, lastStepTime>>

filterVars == <<smoothed, baseline, aboveThreshold>>

lifeVars == <<active, decayTimer, listening, timers, syncing, pendingStart>>

envVars == <<permissionAPI, simMode, threshold>>

rateVars == <<targetRate, phaseCorrection>>

tempoVars == <<originalBPM, currentBeatOffset>>

listVars == <<playlist, currentTrackIndex, tracks, created, pendingLoad, pendingDetect,
              analysed>>

engineVars == <<currentRate, loaded, playing, rafId, rafPending, playbackRate>>

settingVars == <<minRate, maxRate, smoothing>>

swVars == <<swPhase, caches, online, pendingPut, written, answered>>

vars == <<detVars, filterVars, lifeVars, envVars, rateVars, tempoVars, listVars,
          engineVars, settingVars, now, sampleCount, notified, taps, swVars>>

\* ------------------------------------------------------------------------
\* StepDetector: pure parts
\* ------------------------------------------------------------------------
\* magnitude = Math.sqrt(x**2 + y**2 + z**2)
Magnitude(acc) == ISqrt(acc.x * acc.x + acc.y * acc.y + acc.z * acc.z)

\* value += alpha * (magnitude - value), alpha in thousandths
Ema(value, magnitude, alphaPm) == value + RoundDiv(alphaPm * (magnitude - value), 1000)

Exceeds_Mutant(deviation, limit) == Abs(deviation) > limit

\* the rising test of _handleMotion: deviation > this.threshold
Exceeds(deviation, limit) == deviation > limit

\* the debounce test of _handleMotion
DebounceOk_Mutant(time, last) == TRUE

DebounceOk(time, last) == time - last >= minStepInterval

DropOldest_Mutant(stamps) ==
  IF Len(stamps) > HistoryCap THEN SubSeq(stamps, 1, HistoryCap) ELSE stamps

RECURSIVE DropOldest(_)
\* while (stepTimestamps.length > 30) stepTimestamps.shift()
DropOldest(stamps) ==
  IF Len(stamps) > HistoryCap THEN DropOldest(Tail(stamps)) ELSE stamps

\* stamps.slice(-12)
LastStamps(stamps) ==
  IF Len(stamps) <= SpmWindow THEN stamps
  ELSE SubSeq(stamps, Len(stamps) - SpmWindow + 1, Len(stamps))

Intervals_Mutant(stamps) ==
  LET s == LastStamps(stamps)
  IN [i \in 1..(Len(s) - 1) |-> s[i + 1] - s[1]]

\* the consecutive differences of the considered timestamps
Intervals(stamps) ==
  LET s == LastStamps(stamps)
  IN [i \in 1..(Len(s) - 1) |-> s[i + 1] - s[i]]

MedianInterval_Mutant(stamps) ==
  LET sorted == SortSeq(Intervals(stamps), LAMBDA a, b : a < b)
  IN sorted[Len(sorted)]

\* intervals.sort(); intervals[Math.floor(intervals.length / 2)]
MedianInterval(stamps) ==
  LET sorted == SortSeq(Intervals(stamps), LAMBDA a, b : a < b)
  IN sorted[(Len(sorted) \div 2) + 1]

InRangeSPM_Mutant(v) == v <= MaxSPM

InRangeSPM_Always(v) == TRUE

InRangeSPM(v) == v >= MinSPM /\ v <= MaxSPM

EnoughStamps_Mutant(stamps) == Len(stamps) >= 2

EnoughStamps(stamps) == Len(stamps) >= MinStamps

\* _calculateSPM on the history `stamps` with the previous value `old`:
\* the new spm and whether onSPMChange is called.  A zero median gives
\* Math.round(60000 / 0) = Infinity, which is outside [40, 220].
CalculateSPM(stamps, old) ==
  IF ~EnoughStamps(stamps) THEN [spm |-> old, published |-> FALSE]
  ELSE LET median == MedianInterval(stamps)
       IN IF median > 0 /\ InRangeSPM(RoundDiv(60000, median))
          THEN [spm |-> RoundDiv(60000, median), published |-> TRUE]
          ELSE [spm |-> old, published |-> FALSE]

DecayDue_Mutant(stamps, time) == FALSE

\* the test of _checkDecay
DecayDue(stamps, time) ==
  Len(stamps) > 0 /\ time - stamps[Len(stamps)] > DecayMs

\* ------------------------------------------------------------------------
\* App / AudioEngine: pure parts
\* ------------------------------------------------------------------------
\* Math.max(lo, Math.min(hi, x))
Clamp_Mutant(x, lo, hi) == Max2(lo, x)

Clamp(x, lo, hi) == Max2(lo, Min2(hi, x))

\* the JavaScript remainder a % b (sign of the dividend), b > 0
JsRem(a, b) == IF a >= 0 THEN a % b ELSE -((-a) % b)

\* error of _onStep, in units of 1/RateScale.  With beatPeriod = 60000/bpm ms,
\* phase/beatPeriod = (((x*bpm) % 60000 + 60000) % 60000) / 60000 for
\* x = audioTime - beatOffset (ms); the products by bpm keep the model integral.
PhaseError_Mutant(audioTime, beatOffset, bpm) ==
  LET x == (audioTime - beatOffset) * bpm
      phase == JsRem(JsRem(x, 60000) + 60000, 60000)
  IN RoundDiv(phase * RateScale, 60000)

PhaseError(audioTime, beatOffset, bpm) ==
  LET x == (audioTime - beatOffset) * bpm
      phase == JsRem(JsRem(x, 60000) + 60000, 60000)
      signed == IF 2 * phase > 60000 THEN phase - 60000 ELSE phase
  IN RoundDiv(signed * RateScale, 60000)

\* this._phaseCorrection = -error * 0.4
PhaseCorrectionOf(error) == RoundDiv((0 - error) * PhaseGainPc, 100)

UpdateTargetRate_Mutant(spmv, bpm, off, pc, lo, hi) ==
  IF spmv = 0 \/ bpm = 0 THEN RateOne
  ELSE Clamp(RoundDiv(RoundDiv(spmv * RateScale, bpm) * (RateScale + pc), RateScale), lo, hi)

UpdateTargetRate_Inverted(spmv, bpm, off, pc, lo, hi) ==
  IF spmv = 0 \/ bpm = 0 THEN RateOne
  ELSE Clamp(RoundDiv(bpm * RateScale, spmv), lo, hi)

\* the targetRate left by _updateTargetRate
UpdateTargetRate(spmv, bpm, off, pc, lo, hi) ==
  IF spmv = 0 \/ bpm = 0 THEN RateOne
  ELSE LET base == RoundDiv(spmv * RateScale, bpm)
           rate == IF off # Undefined
                   THEN RoundDiv(base * (RateScale + pc), RateScale)
                   ELSE base
       IN Clamp(rate, lo, hi)

\* _onSPMChange without the reset of the phase correction and the rate
OnSPMChange_Mutant(v, r) ==
  IF syncing /\ v > 0
  THEN [targetRate |-> UpdateTargetRate(v, originalBPM, currentBeatOffset,
                                        r.phaseCorrection, minRate, maxRate),
        phaseCorrection |-> r.phaseCorrection]
  ELSE r

\* _onSPMChange(v), after stepDetector.spm was set to v: the new
\* (targetRate, phaseCorrection), from the current ones `r`
OnSPMChange(v, r) ==
  IF syncing /\ v > 0
  THEN [targetRate |-> UpdateTargetRate(v, originalBPM, currentBeatOffset,
                                        r.phaseCorrection, minRate, maxRate),
        phaseCorrection |-> r.phaseCorrection]
  ELSE [targetRate |-> RateOne, phaseCorrection |-> 0]

\* _onStep() while stepDetector.spm = v and audio.currentTime = pos
OnStep(v, pos, r) ==
  IF syncing /\ originalBPM # 0 /\ currentBeatOffset # Undefined
  THEN LET pc == PhaseCorrectionOf(PhaseError(pos, currentBeatOffset, originalBPM))
       IN [targetRate |-> UpdateTargetRate(v, originalBPM, currentBeatOffset, pc,
                                           minRate, maxRate),
           phaseCorrection |-> pc]
  ELSE r

\* ------------------------------------------------------------------------
\* BPMDetector: pure parts.  A file is described by what detect() derives
\* from it: whether it decodes, its duration (ms), the final score table
\* (two peaks over a floor; scores are sums of products of non-negative
\* onset values, hence non-negative) and the envelope offset that scores
\* best in _findBeatPhase.
\* ------------------------------------------------------------------------
MinBPM == 60

MaxBPM == 200

HalfFloor == 80

\* sampleRate / hop: onset frames per second
OnsetRate == 100

\* 100 * skip (ms), skip = Math.min(15, duration * 0.15)
Skip100(duration) == Min2(1500000, 15 * duration)

\* 100 * dur (ms), dur = Math.min(30, duration - skip)
Window100(duration) == Min2(3000000, 100 * duration - Skip100(duration))

TooShort_Mutant(duration) == duration < 5000

\* dur < 5
TooShort(duration) == Window100(duration) < 500000

\* decodeAudioData rejects, or 'Track too short for BPM detection'
DetectThrows(audio) == ~audio.decodable \/ TooShort(audio.duration)

\* scores[bpm - minBPM], after the perceptual bias
ScoreTable(audio) ==
  [b \in MinBPM..MaxBPM |->
     IF b = audio.peak1 THEN audio.score1
     ELSE IF b = audio.peak2 THEN audio.score2
     ELSE audio.floor]

\* the candidate loop with ">=": the highest bpm among equal maxima
BestCandidate_Mutant(scores) ==
  CHOOSE b \in MinBPM..MaxBPM :
    \A c \in MinBPM..MaxBPM :
      scores[c] < scores[b] \/ (scores[c] = scores[b] /\ c <= b)

\* the loop "if (scores[bpm - minBPM] > bestScore)": the lowest bpm among
\* those with the highest score
BestCandidate(scores) ==
  CHOOSE b \in MinBPM..MaxBPM :
    \A c \in MinBPM..MaxBPM :
      scores[c] < scores[b] \/ (scores[c] = scores[b] /\ c >= b)

\* scores[half - minBPM] > bestScore * 0.85
PrefersHalf(halfScore, bestScore) == 100 * halfScore > 85 * bestScore

\* scores[dbl - minBPM] > bestScore * 1.2
PrefersDouble(dblScore, bestScore) == 10 * dblScore > 12 * bestScore

\* the octave resolution of detect(): best after both tests
ResolveOctave(scores) ==
  LET best == BestCandidate(scores)
      bestScore == scores[best]
      half == RoundDiv(best, 2)
      dbl == 2 * best
      afterHalf == IF /\ half >= MinBPM /\ half <= MaxBPM
                      /\ PrefersHalf(scores[half], bestScore)
                      /\ half >= HalfFloor
                   THEN half ELSE best
  IN IF dbl >= MinBPM /\ dbl <= MaxBPM /\ PrefersDouble(scores[dbl], bestScore)
     THEN dbl ELSE afterHalf

\* _findBeatPhase: bestOffset / onsetRate in ms, bestOffset being one of
\* the numOffsets = ceil(onsetRate * 60 / bpm) offsets tried
PhaseInWindow(audio, bpm) ==
  LET numOffsets == (OnsetRate * 60 + bpm - 1) \div bpm
  IN (Min2(audio.phaseIndex, numOffsets - 1) * 1000) \div OnsetRate

BeatOffsetOf_Mutant(audio, bpm) ==
  Skip100(audio.duration) \div 100 + PhaseInWindow(audio, bpm)

\* (skip + phaseInWindow) % beatPeriod in whole ms (truncated), with
\* beatPeriod = 60000 / bpm ms
BeatOffsetOf(audio, bpm) ==
  (((Skip100(audio.duration) \div 100 + PhaseInWindow(audio, bpm)) * bpm) % 60000)
    \div bpm

\* what detect() resolves with
Detect(audio) ==
  LET best == ResolveOctave(ScoreTable(audio))
  IN [bpm |-> best, beatOffset |-> BeatOffsetOf(audio, best)]

\* ------------------------------------------------------------------------
\* TapBPM: pure parts
\* ------------------------------------------------------------------------
TapGap == 2000

TapCap == 12

\* what Math.round(60000 / 0) evaluates to
Infinity == 1000000

\* this.taps after the reset test, the push and the shift of tap()
TapsAfter(ts, time) ==
  LET kept == IF Len(ts) > 0 /\ time - ts[Len(ts)] > TapGap THEN <<>> ELSE ts
      pushed == Append(kept, time)
  IN IF Len(pushed) > TapCap THEN Tail(pushed) ELSE pushed

RECURSIVE SumSeq(_)
\* intervals.reduce((a, b) => a + b, 0)
SumSeq(q) == IF q = <<>> THEN 0 ELSE Head(q) + SumSeq(Tail(q))

\* the consecutive differences of the taps
TapIntervals(ts) == [i \in 1..(Len(ts) - 1) |-> ts[i + 1] - ts[i]]

\* the mean taken over the number of taps instead of the number of intervals
TapResult_Mutant(ts) ==
  IF Len(ts) < 2 THEN 0
  ELSE LET total == SumSeq(TapIntervals(ts))
       IN IF total = 0 THEN Infinity
          ELSE RoundDiv(60000 * Len(ts), total)

\* what tap() returns with this.taps = ts after the push: null (0) below two
\* taps, else Math.round(60000 / avg)
TapResult(ts) ==
  IF Len(ts) < 2 THEN 0
  ELSE LET total == SumSeq(TapIntervals(ts))
       IN IF total = 0 THEN Infinity
          ELSE RoundDiv(60000 * (Len(ts) - 1), total)

\* ------------------------------------------------------------------------
\* Service worker (sw.js): constants and pure parts
\* ------------------------------------------------------------------------
CACHE_NAME == "cadence-v14"

\* the cache of an earlier version of the worker
OldCacheName == "cadence-v13"

ASSETS == {"./", "./index.html", "./style.css", "./app.js", "./manifest.json",
           "./icons/icon.svg"}

\* event.request.url.startsWith('blob:')
IsBlob(url) == url \in {"blob:track"}

\* caches.open(CACHE_NAME): the cache is created when it does not exist
CacheOpen(store) ==
  [n \in DOMAIN store \cup {CACHE_NAME} |-> IF n \in DOMAIN store THEN store[n] ELSE {}]

\* cache.put / cache.addAll into the cache CACHE_NAME
CacheAdd(store, urls) ==
  [n \in DOMAIN CacheOpen(store) |->
     IF n = CACHE_NAME THEN CacheOpen(store)[n] \cup urls ELSE CacheOpen(store)[n]]

PurgeOld_Mutant(store) == [n \in {} |-> {}]

\* the activate handler: caches.delete(k) for every k !== CACHE_NAME
PurgeOld(store) == [n \in DOMAIN store \cap {CACHE_NAME} |-> store[n]]

\* caches.match(request): some cache holds a response for this GET request
CacheMatch(store, req) ==
  req.method = "GET" /\ \E n \in DOMAIN store : req.url \in store[n]

\* ------------------------------------------------------------------------
\* Inputs
\* ------------------------------------------------------------------------
\* event.accelerationIncludingGravity: absent (null, or x === null), a spike
\* of 19.81 m/s^2 along z, or a dip of magnitude 5 m/s^2 (3, 4, 0)
Samples ==
  { [has |-> FALSE, x |-> 0, y |-> 0, z |-> 0],
    [has |-> TRUE, x |-> 0, y |-> 0, z |-> Gravity + 10 * AccScale],
    [has |-> TRUE, x |-> 3 * AccScale, y |-> 4 * AccScale, z |-> 0] }

\* milliseconds by which the clock advances between two events
Deltas == {250, 500, 1000, 3250}

\* values of the sensitivity slider
Thresholds == {DefaultThreshold, 3 * AccScale}

\* audio.currentTime (ms) read by _onStep; 0 while nothing is loaded
AudioPositions == {0, 100, 350, 600}

Positions == IF loaded THEN AudioPositions ELSE {0}

NoLoad == [index |-> -1, track |-> 0]

\* no analysis has finished yet
NoAudio == [decodable |-> FALSE, duration |-> 0, peak1 |-> 0, score1 |-> 0,
            peak2 |-> 0, score2 |-> 0, floor |-> 0, phaseIndex |-> 0]

\* a file decodeAudioData rejects
Undecodable == [decodable |-> FALSE, duration |-> 20000, peak1 |-> 0, score1 |-> 0,
                peak2 |-> 0, score2 |-> 0, floor |-> 0, phaseIndex |-> 0]

\* durations (ms) around the shortest analysable one (5883 ms) and beyond
\* the 15 s skip and 30 s window limits
Durations == {3000, 5500, 5880, 5900, 120000}

PeakBPMs == {79, 100, 158, 159, 200}

PeakScores == {0, 84, 85, 86, 100}

PhaseIndexes == {0, 37, 99}

Audios ==
  {Undecodable} \cup
  {a \in [decodable : {TRUE}, duration : Durations, peak1 : PeakBPMs,
          score1 : PeakScores, peak2 : PeakBPMs, score2 : PeakScores,
          floor : {0}, phaseIndex : PhaseIndexes] : a.peak1 < a.peak2}

\* a playlist entry as _handleFiles creates it (bpm: null, beatOffset: undefined)
NewTrack == [bpm |-> 0, beatOffset |-> Undefined, detecting |-> FALSE]

Rates == [targetRate |-> targetRate, phaseCorrection |-> phaseCorrection]

SpmNote(v) == [kind |-> "spm", value |-> v]

StepNote(n) == [kind |-> "step", value |-> n]

\* setInterval: a fresh timer id
NewTimer(ts) == CHOOSE i \in 1..MaxTimers : i \notin ts

\* clearInterval(id)
ClearTimer(ts, id) == ts \ {id}

\* _registerStep with the step notification built on the SPM of the
\* previous step
RegisterStep_Mutant(time, pos) ==
  LET stamps == DropOldest(Append(stepTimestamps, time))
      calc == CalculateSPM(stamps, spm)
      r1 == IF calc.published THEN OnSPMChange(calc.spm, Rates) ELSE Rates
      r2 == OnStep(spm, pos, r1)
  IN /\ lastStepTime' = time
     /\ stepCount' = stepCount + 1
     /\ stepTimestamps' = stamps
     /\ spm' = calc.spm
     /\ targetRate' = r2.targetRate
     /\ phaseCorrection' = r2.phaseCorrection
     /\ notified' = (IF calc.published THEN <<SpmNote(calc.spm)>> ELSE <<>>)
                      \o <<StepNote(stepCount + 1)>>

\* ------------------------------------------------------------------------
\* StepDetector handlers
\* ------------------------------------------------------------------------
\* _registerStep(time), with the onSPMChange and onStep callbacks of the App
RegisterStep(time, pos) ==
  LET stamps == DropOldest(Append(stepTimestamps, time))
      calc == CalculateSPM(stamps, spm)
      r1 == IF calc.published THEN OnSPMChange(calc.spm, Rates) ELSE Rates
      r2 == OnStep(calc.spm, pos, r1)
  IN /\ lastStepTime' = time
     /\ stepCount' = stepCount + 1
     /\ stepTimestamps' = stamps
     /\ spm' = calc.spm
     /\ targetRate' = r2.targetRate
     /\ phaseCorrection' = r2.phaseCorrection
     /\ notified' = (IF calc.published THEN <<SpmNote(calc.spm)>> ELSE <<>>)
                      \o <<StepNote(stepCount + 1)>>

\* _handleMotion(event): one devicemotion event
HandleMotion(acc, pos) ==
  /\ listening
  /\ sampleCount < MaxSamples
  /\ stepCount < MaxSteps
  /\ UNCHANGED <<lifeVars, envVars, tempoVars, listVars, engineVars, settingVars, now, taps, swVars>>
  /\ IF ~acc.has
     THEN /\ UNCHANGED <<detVars, filterVars, rateVars, sampleCount>>
          /\ notified' = <<>>
     ELSE LET magnitude == Magnitude(acc)
              b == Ema(baseline, magnitude, baselineAlphaPm)
              s == Ema(smoothed, magnitude, smoothAlphaPm)
              deviation == s - b
          IN /\ sampleCount' = sampleCount + 1
             /\ baseline' = b
             /\ smoothed' = s
             /\ IF Exceeds(deviation, threshold)
                THEN /\ aboveThreshold' = TRUE
                     /\ UNCHANGED <<detVars, rateVars>>
                     /\ notified' = <<>>
                ELSE IF aboveThreshold
                THEN /\ aboveThreshold' = FALSE
                     /\ IF DebounceOk(now, lastStepTime)
                        THEN RegisterStep(now, pos)
                        ELSE /\ UNCHANGED <<detVars, rateVars>>
                             /\ notified' = <<>>
                ELSE /\ UNCHANGED <<aboveThreshold, detVars, rateVars>>
                     /\ notified' = <<>>

\* keydown Space -> stepDetector.simulateStep() -> _registerStep(Date.now())
SimulateStep(pos) ==
  /\ simMode
  /\ syncing
  /\ stepCount < MaxSteps
  /\ RegisterStep(now, pos)
  /\ UNCHANGED <<filterVars, lifeVars, envVars, tempoVars, listVars, engineVars,
                 settingVars, now, taps, swVars, sampleCount>>

\* _checkDecay(), called by every scheduled interval timer
CheckDecay ==
  /\ timers # {}
  /\ IF DecayDue(stepTimestamps, now)
     THEN LET r == OnSPMChange(0, Rates)
          IN /\ spm' = 0
             /\ stepTimestamps' = <<>>
             /\ targetRate' = r.targetRate
             /\ phaseCorrection' = r.phaseCorrection
             /\ notified' = <<SpmNote(0)>>
             /\ UNCHANGED <<stepCount, lastStepTime>>
     ELSE /\ UNCHANGED <<detVars, rateVars>>
          /\ notified' = <<>>
  /\ UNCHANGED <<filterVars, lifeVars, envVars, tempoVars, listVars, engineVars,
                 settingVars, now, taps, swVars, sampleCount>>

\* setThreshold(value), from the sensitivity slider
SetThreshold(v) ==
  /\ v # threshold
  /\ threshold' = v
  /\ notified' = <<>>
  /\ UNCHANGED <<detVars, filterVars, lifeVars, permissionAPI, simMode, rateVars,
                 tempoVars, listVars, engineVars, settingVars, now, taps, swVars, sampleCount>>

\* the user ticks or unticks the simMode checkbox (no handler is attached)
SetSimMode ==
  /\ simMode' = ~simMode
  /\ notified' = <<>>
  /\ UNCHANGED <<detVars, filterVars, lifeVars, permissionAPI, threshold, rateVars,
                 tempoVars, listVars, engineVars, settingVars, now, taps, swVars, sampleCount>>

\* time passes
AdvanceClock(d) ==
  /\ now + d <= Epoch + MaxElapsed
  /\ now' = now + d
  /\ notified' = <<>>
  /\ UNCHANGED <<detVars, filterVars, lifeVars, envVars, rateVars, tempoVars,
                 listVars, engineVars, settingVars, sampleCount, taps, swVars>>

\* ------------------------------------------------------------------------
\* App._toggleSync
\* ------------------------------------------------------------------------
\* syncing: stop the detector and reset the rate
ToggleSyncOff_Mutant ==
  /\ syncing
  /\ syncing' = FALSE
  /\ listening' = FALSE
  /\ active' = FALSE
  /\ timers' = IF decayTimer # 0 THEN ClearTimer(timers, decayTimer) ELSE timers
  /\ decayTimer' = 0
  /\ targetRate' = RateOne
  /\ notified' = <<>>
  /\ UNCHANGED <<detVars, filterVars, pendingStart, envVars, tempoVars, listVars,
                 engineVars, settingVars, now, taps, swVars, sampleCount, phaseCorrection>>

\* _toggleSync's off branch without resetRate()
ToggleSyncOff_NoReset ==
  /\ syncing
  /\ syncing' = FALSE
  /\ listening' = FALSE
  /\ active' = FALSE
  /\ timers' = IF decayTimer # 0 THEN ClearTimer(timers, decayTimer) ELSE timers
  /\ decayTimer' = 0
  /\ phaseCorrection' = 0
  /\ notified' = <<>>
  /\ UNCHANGED <<detVars, filterVars, pendingStart, envVars, tempoVars, listVars,
                 engineVars, settingVars, now, taps, swVars, sampleCount, targetRate>>

ToggleSyncOff ==
  /\ syncing
  /\ syncing' = FALSE
  /\ listening' = FALSE
  /\ active' = FALSE
  /\ timers' = IF decayTimer # 0 THEN ClearTimer(timers, decayTimer) ELSE timers
  /\ decayTimer' = 0
  /\ targetRate' = RateOne
  /\ phaseCorrection' = 0
  /\ notified' = <<>>
  /\ UNCHANGED <<detVars, filterVars, pendingStart, envVars, tempoVars, listVars,
                 engineVars, settingVars, now, taps, swVars, sampleCount>>

\* not syncing, simMode checked: no await, the App starts the decay timer itself
ToggleSyncOnSim ==
  /\ ~syncing
  /\ simMode
  /\ Cardinality(timers) < MaxTimers
  /\ syncing' = TRUE
  /\ active' = TRUE
  /\ decayTimer' = NewTimer(timers)
  /\ timers' = timers \cup {NewTimer(timers)}
  /\ notified' = <<>>
  /\ UNCHANGED <<detVars, filterVars, listening, pendingStart, envVars, rateVars,
                 tempoVars, listVars, engineVars, settingVars, now, taps, swVars, sampleCount>>

\* not syncing, simMode unchecked, no permission API: start() runs to its end
\* and the continuation of _toggleSync follows in the same microtask turn
ToggleSyncOnSensor ==
  /\ ~syncing
  /\ ~simMode
  /\ ~permissionAPI
  /\ Cardinality(timers) < MaxTimers
  /\ listening' = TRUE
  /\ active' = TRUE
  /\ decayTimer' = NewTimer(timers)
  /\ timers' = timers \cup {NewTimer(timers)}
  /\ syncing' = TRUE
  /\ notified' = <<>>
  /\ UNCHANGED <<detVars, filterVars, pendingStart, envVars, rateVars, tempoVars,
                 listVars, engineVars, settingVars, now, taps, swVars, sampleCount>>

\* not syncing, simMode unchecked, permission API: suspend in requestPermission()
ToggleSyncRequest ==
  /\ ~syncing
  /\ ~simMode
  /\ permissionAPI
  /\ pendingStart < MaxPending
  /\ pendingStart' = pendingStart + 1
  /\ notified' = <<>>
  /\ UNCHANGED <<detVars, filterVars, active, decayTimer, listening, timers, syncing,
                 envVars, rateVars, tempoVars, listVars, engineVars, settingVars,
                 now, taps, swVars, sampleCount>>

\* what DeviceMotionEvent.requestPermission() resolves with
Permissions == {"granted", "denied"}

PermissionGranted_Mutant(permission) == TRUE

\* start() goes on unless permission !== 'granted'
PermissionGranted(permission) == permission = "granted"

\* alert('Could not access motion sensors: ...')
AlertNote == [kind |-> "alert", value |-> 0]

\* requestPermission() resolves: the rest of start() and of _toggleSync
PermissionAnswer(permission) ==
  /\ pendingStart > 0
  /\ pendingStart' = pendingStart - 1
  /\ notified' = IF PermissionGranted(permission) THEN <<>> ELSE <<AlertNote>>
  /\ IF PermissionGranted(permission)
     THEN LET t1 == NewTimer(timers)
              ts1 == timers \cup {t1}
          IN /\ Cardinality(timers) + (IF simMode THEN 2 ELSE 1) <= MaxTimers
             /\ listening' = TRUE
             /\ active' = TRUE
             /\ syncing' = TRUE
             /\ IF simMode
                THEN /\ decayTimer' = NewTimer(ts1)
                     /\ timers' = ts1 \cup {NewTimer(ts1)}
                ELSE /\ decayTimer' = t1
                     /\ timers' = ts1
     ELSE UNCHANGED <<active, decayTimer, listening, timers, syncing>>
  /\ UNCHANGED <<detVars, filterVars, envVars, rateVars, tempoVars, listVars,
                 engineVars, settingVars, now, taps, swVars, sampleCount>>

\* ------------------------------------------------------------------------
\* AudioEngine
\* ------------------------------------------------------------------------
\* 0.002, the smallest change of rate written to audio.playbackRate
RateEpsilon == RoundDiv(2 * RateScale, 1000)

SmoothStep_Mutant(cur, target, k) == cur + RoundDiv(k * (target - cur), 10)

\* currentRate += smoothing * (targetRate - currentRate), smoothing in hundredths
SmoothStep(cur, target, k) == cur + RoundDiv(k * (target - cur), 100)

\* the currentRate left by one run of _smoothLoop
SmoothedRate(cur) == Clamp(SmoothStep(cur, targetRate, smoothing), minRate, maxRate)

AppliedRate_Mutant(applied, cur) == cur

\* the audio.playbackRate left by one run of _smoothLoop
AppliedRate(applied, cur) == IF Abs(applied - cur) > RateEpsilon THEN cur ELSE applied

\* play(): nothing unless a file was loaded; _startSmoothing() runs _smoothLoop
\* once, which schedules the next frame, unless _rafId is set
PlayEffect ==
  IF ~loaded
  THEN UNCHANGED <<playing, currentRate, playbackRate, rafId, rafPending>>
  ELSE /\ playing' = TRUE
       /\ IF rafId
          THEN UNCHANGED <<currentRate, playbackRate, rafId, rafPending>>
          ELSE /\ currentRate' = SmoothedRate(currentRate)
               /\ playbackRate' = AppliedRate(playbackRate, SmoothedRate(currentRate))
               /\ rafId' = TRUE
               /\ rafPending' = TRUE

\* pause(): _stopSmoothing() cancels the scheduled frame when _rafId is set
PauseEffect ==
  /\ playing' = FALSE
  /\ IF rafId
     THEN rafId' = FALSE /\ rafPending' = FALSE
     ELSE UNCHANGED <<rafId, rafPending>>
  /\ UNCHANGED <<currentRate, playbackRate>>

\* play(), from the play/pause button or the media session
Play ==
  /\ PlayEffect
  /\ notified' = <<>>
  /\ UNCHANGED <<detVars, filterVars, lifeVars, envVars, rateVars, tempoVars, listVars,
                 loaded, settingVars, now, taps, swVars, sampleCount>>

\* pause(), from the play/pause button or the media session
Pause ==
  /\ PauseEffect
  /\ notified' = <<>>
  /\ UNCHANGED <<detVars, filterVars, lifeVars, envVars, rateVars, tempoVars, listVars,
                 loaded, settingVars, now, taps, swVars, sampleCount>>

\* _smoothLoop(), called by requestAnimationFrame
Tick ==
  /\ rafPending
  /\ currentRate' = SmoothedRate(currentRate)
  /\ playbackRate' = AppliedRate(playbackRate, SmoothedRate(currentRate))
  /\ rafPending' = playing
  /\ notified' = <<>>
  /\ UNCHANGED <<detVars, filterVars, lifeVars, envVars, rateVars, tempoVars, listVars,
                 loaded, playing, rafId, settingVars, now, taps, swVars, sampleCount>>

\* the minRate, maxRate and smoothing sliders
SetMinRate(v) ==
  /\ v # minRate
  /\ minRate' = v
  /\ notified' = <<>>
  /\ UNCHANGED <<detVars, filterVars, lifeVars, envVars, rateVars, tempoVars, listVars,
                 engineVars, maxRate, smoothing, now, taps, swVars, sampleCount>>

SetMaxRate(v) ==
  /\ v # maxRate
  /\ maxRate' = v
  /\ notified' = <<>>
  /\ UNCHANGED <<detVars, filterVars, lifeVars, envVars, rateVars, tempoVars, listVars,
                 engineVars, minRate, smoothing, now, taps, swVars, sampleCount>>

SetSmoothing(v) ==
  /\ v # smoothing
  /\ smoothing' = v
  /\ notified' = <<>>
  /\ UNCHANGED <<detVars, filterVars, lifeVars, envVars, rateVars, tempoVars, listVars,
                 engineVars, minRate, maxRate, now, taps, swVars, sampleCount>>

\* ------------------------------------------------------------------------
\* Playlist and tempo
\* ------------------------------------------------------------------------
\* playlist[index] (0-based), 0 when there is none
TrackAt(list, index) ==
  IF index >= 0 /\ index < Len(list) THEN list[index + 1] ELSE 0

\* the synchronous part of _playTrack(index), 0 <= index < playlist.length,
\* on the playlist `list`: loadFile() replaces the awaited load
PlayTrackStart(list, index) ==
  /\ currentTrackIndex' = index
  /\ loaded' = TRUE
  /\ pendingLoad' = [index |-> index, track |-> TrackAt(list, index)]

\* _handleFiles(fileList) with n audio files
HandleFiles(n) ==
  /\ created + n <= MaxTracks
  /\ created' = created + n
  /\ playlist' = playlist \o [i \in 1..n |-> created + i]
  /\ IF currentTrackIndex < 0
     THEN PlayTrackStart(playlist', Len(playlist))
     ELSE UNCHANGED <<currentTrackIndex, loaded, pendingLoad>>
  /\ notified' = <<>>
  /\ UNCHANGED <<detVars, filterVars, lifeVars, envVars, rateVars, tempoVars, tracks,
                 pendingDetect, analysed, currentRate, playing, rafId, rafPending, playbackRate,
                 settingVars, now, taps, swVars, sampleCount>>

\* _playTrack(index) from a playlist row, the prev/next buttons
PlayTrack(index) ==
  /\ index >= 0
  /\ index < Len(playlist)
  /\ PlayTrackStart(playlist, index)
  /\ notified' = <<>>
  /\ UNCHANGED <<detVars, filterVars, lifeVars, envVars, rateVars, tempoVars, playlist,
                 tracks, created, pendingDetect, analysed,
                 currentRate, playing, rafId, rafPending,
                 playbackRate, settingVars, now, taps, swVars, sampleCount>>

PrevTrack == currentTrackIndex > 0 /\ PlayTrack(currentTrackIndex - 1)

NextTrack == currentTrackIndex < Len(playlist) - 1 /\ PlayTrack(currentTrackIndex + 1)

\* the audio element's `ended` event
Ended ==
  /\ playing
  /\ IF currentTrackIndex < Len(playlist) - 1
     THEN PlayTrack(currentTrackIndex + 1)
     ELSE /\ playing' = FALSE
          /\ notified' = <<>>
          /\ UNCHANGED <<detVars, filterVars, lifeVars, envVars, rateVars, tempoVars,
                         listVars, currentRate, loaded, rafId, rafPending, playbackRate,
                         settingVars, now, taps, swVars, sampleCount>>

\* canplaythrough: the rest of _playTrack, with the synchronous start of
\* _detectBPM(index) and audioEngine.play()
LoadDone ==
  /\ pendingLoad # NoLoad
  /\ pendingLoad' = NoLoad
  /\ LET t == pendingLoad.track
         other == TrackAt(playlist, pendingLoad.index)
     IN IF tracks[t].bpm # 0
        THEN /\ originalBPM' = tracks[t].bpm
             /\ currentBeatOffset' = tracks[t].beatOffset
             /\ UNCHANGED <<tracks, pendingDetect>>
        ELSE /\ originalBPM' = 0
             /\ currentBeatOffset' = Undefined
             /\ IF ~tracks[t].detecting /\ other # 0 /\ ~tracks[other].detecting
                THEN /\ tracks' = [tracks EXCEPT ![other].detecting = TRUE]
                     /\ pendingDetect' = pendingDetect
                          \cup {[index |-> pendingLoad.index, track |-> other]}
                ELSE UNCHANGED <<tracks, pendingDetect>>
  /\ PlayEffect
  /\ notified' = <<>>
  /\ UNCHANGED <<detVars, filterVars, lifeVars, envVars, rateVars, playlist,
                 currentTrackIndex, created, analysed, loaded, settingVars, now, taps, swVars, sampleCount>>

\* the audio element's `error` event: loadFile() rejects
LoadError ==
  /\ pendingLoad # NoLoad
  /\ pendingLoad' = NoLoad
  /\ notified' = <<>>
  /\ UNCHANGED <<detVars, filterVars, lifeVars, envVars, rateVars, tempoVars, playlist,
                 currentTrackIndex, tracks, created, pendingDetect, analysed,
                 engineVars,
                 settingVars, now, taps, swVars, sampleCount>>

DetectResolved_Mutant(p, res) ==
  /\ p \in pendingDetect
  /\ pendingDetect' = pendingDetect \ {p}
  /\ tracks' = IF TrackAt(playlist, p.index) # 0
               THEN [tracks EXCEPT ![TrackAt(playlist, p.index)] =
                       [bpm |-> res.bpm, beatOffset |-> res.beatOffset,
                        detecting |-> FALSE]]
               ELSE tracks
  /\ IF p.index = currentTrackIndex /\ res.bpm # 0
     THEN /\ originalBPM' = res.bpm
          /\ currentBeatOffset' = res.beatOffset
     ELSE UNCHANGED tempoVars
  /\ notified' = <<>>
  /\ UNCHANGED <<detVars, filterVars, lifeVars, envVars, rateVars, playlist,
                 currentTrackIndex, created, pendingLoad, engineVars, settingVars, now,
                 taps, swVars, sampleCount>>

\* the rest of _detectBPM after BPMDetector.detect() resolved with `res`
DetectResolved(p, res) ==
  /\ p \in pendingDetect
  /\ pendingDetect' = pendingDetect \ {p}
  /\ tracks' = [tracks EXCEPT ![p.track] =
                  [bpm |-> res.bpm, beatOffset |-> res.beatOffset, detecting |-> FALSE]]
  /\ IF p.index = currentTrackIndex /\ res.bpm # 0
     THEN /\ originalBPM' = res.bpm
          /\ currentBeatOffset' = res.beatOffset
     ELSE UNCHANGED tempoVars
  /\ notified' = <<>>
  /\ UNCHANGED <<detVars, filterVars, lifeVars, envVars, rateVars, playlist,
                 currentTrackIndex, created, pendingLoad, engineVars, settingVars, now, taps, swVars,
                 sampleCount>>

\* the catch of _detectBPM without "track.detecting = false"
DetectRejected_Mutant(p) ==
  /\ p \in pendingDetect
  /\ pendingDetect' = pendingDetect \ {p}
  /\ tracks' = [tracks EXCEPT ![p.track] = [NewTrack EXCEPT !.detecting = TRUE]]
  /\ notified' = <<>>
  /\ UNCHANGED <<detVars, filterVars, lifeVars, envVars, rateVars, tempoVars, playlist,
                 currentTrackIndex, created, pendingLoad, engineVars, settingVars, now, taps, swVars,
                 sampleCount>>

\* the rest of _detectBPM after BPMDetector.detect() rejected (catch)
DetectRejected(p) ==
  /\ p \in pendingDetect
  /\ pendingDetect' = pendingDetect \ {p}
  /\ tracks' = [tracks EXCEPT ![p.track] = NewTrack]
  /\ notified' = <<>>
  /\ UNCHANGED <<detVars, filterVars, lifeVars, envVars, rateVars, tempoVars, playlist,
                 currentTrackIndex, created, pendingLoad, engineVars, settingVars, now, taps, swVars,
                 sampleCount>>

\* BPMDetector.detect() resolves with `res`, whatever the file held
DetectDone(p, res) == DetectResolved(p, res) /\ UNCHANGED analysed

\* BPMDetector.detect() rejects, whatever the file held
DetectFail(p) == DetectRejected(p) /\ UNCHANGED analysed

\* BPMDetector.detect(track.file) finishes on a file holding `audio`, and
\* _detectBPM goes on with its outcome
Analyse(p, audio) ==
  /\ analysed' = audio
  /\ IF DetectThrows(audio)
     THEN DetectRejected(p)
     ELSE DetectResolved(p, Detect(audio))

ManualBPM_Mutant(val) ==
  /\ IF val >= 40 /\ val <= 220
     THEN /\ originalBPM' = val
          /\ IF currentTrackIndex >= 0
             THEN tracks' = [tracks EXCEPT ![TrackAt(playlist, currentTrackIndex)] =
                               [bpm |-> val, beatOffset |-> Undefined,
                                detecting |-> FALSE]]
             ELSE UNCHANGED tracks
     ELSE UNCHANGED <<originalBPM, tracks>>
  /\ notified' = <<>>
  /\ UNCHANGED <<detVars, filterVars, lifeVars, envVars, rateVars, currentBeatOffset,
                 playlist, currentTrackIndex, created, pendingLoad, pendingDetect, analysed,
                 engineVars, settingVars, now, taps, swVars, sampleCount>>

\* the `change` event of the manual BPM input with parseInt(value) = val
ManualBPM(val) ==
  /\ IF val >= 40 /\ val <= 220
     THEN /\ originalBPM' = val
          /\ IF currentTrackIndex >= 0
             THEN tracks' = [tracks EXCEPT ![TrackAt(playlist, currentTrackIndex)].bpm = val]
             ELSE UNCHANGED tracks
     ELSE UNCHANGED <<originalBPM, tracks>>
  /\ notified' = <<>>
  /\ UNCHANGED <<detVars, filterVars, lifeVars, envVars, rateVars, currentBeatOffset,
                 playlist, currentTrackIndex, created, pendingLoad, pendingDetect, analysed,
                 engineVars, settingVars, now, taps, swVars, sampleCount>>

\* _clearPlaylist()
ClearPlaylist ==
  /\ PauseEffect
  /\ playlist' = <<>>
  /\ currentTrackIndex' = -1
  /\ currentBeatOffset' = Undefined
  /\ phaseCorrection' = 0
  /\ notified' = <<>>
  /\ UNCHANGED <<detVars, filterVars, lifeVars, envVars, targetRate, originalBPM, tracks,
                 created, pendingLoad, pendingDetect, analysed,
                 loaded, settingVars, now, taps, swVars,
                 sampleCount>>

\* ------------------------------------------------------------------------
\* Tap tempo
\* ------------------------------------------------------------------------
\* _handleTap(): click on the tap button
HandleTap ==
  /\ taps' = TapsAfter(taps, now)
  /\ IF TapResult(taps') # 0
     THEN originalBPM' = TapResult(taps')
     ELSE UNCHANGED originalBPM
  /\ notified' = <<>>
  /\ UNCHANGED <<detVars, filterVars, lifeVars, envVars, rateVars, currentBeatOffset,
                 listVars, engineVars, settingVars, now, sampleCount, swVars>>

\* ------------------------------------------------------------------------
\* Service worker handlers
\* ------------------------------------------------------------------------
appVars == <<detVars, filterVars, lifeVars, envVars, rateVars, tempoVars, listVars,
             engineVars, settingVars, now, sampleCount, notified, taps>>

NoAnswer == [url |-> "", method |-> "", from |-> ""]

\* the install event: cache.addAll(ASSETS) stores every asset or, when one
\* cannot be fetched (`ok` false, or no network), nothing, and the install fails
Install(ok) ==
  /\ swPhase = "parsed"
  /\ IF online /\ ok
     THEN /\ swPhase' = "installed"
          /\ caches' = CacheAdd(caches, ASSETS)
     ELSE /\ swPhase' = "redundant"
          /\ caches' = CacheOpen(caches)
  /\ UNCHANGED <<online, pendingPut, written, answered, appVars>>

\* navigator.serviceWorker.register('sw.js') on a later page load, after a
\* failed install
Register ==
  /\ swPhase = "redundant"
  /\ swPhase' = "parsed"
  /\ UNCHANGED <<caches, online, pendingPut, written, answered, appVars>>

\* the activate event (skipWaiting: right after the install)
Activate ==
  /\ swPhase = "installed"
  /\ swPhase' = "activated"
  /\ caches' = PurgeOld(caches)
  /\ UNCHANGED <<online, pendingPut, written, answered, appVars>>

\* the fetch event for `req`; `ok` is response.ok of the network's answer
Fetch(req, ok) ==
  /\ swPhase = "activated"
  /\ IF IsBlob(req.url)
     THEN /\ answered' = [url |-> req.url, method |-> req.method, from |-> "browser"]
          /\ UNCHANGED pendingPut
     ELSE IF online
     THEN /\ answered' = [url |-> req.url, method |-> req.method, from |-> "network"]
          /\ pendingPut' = IF ok /\ req.method = "GET"
                           THEN pendingPut \cup {req.url} ELSE pendingPut
     ELSE /\ answered' = [url |-> req.url, method |-> req.method,
                          from |-> IF CacheMatch(caches, req) THEN "cache" ELSE "error"]
          /\ UNCHANGED pendingPut
  /\ UNCHANGED <<swPhase, caches, online, written, appVars>>

\* caches.open(CACHE_NAME).then(cache => cache.put(request, clone)) completes
CachePut(url) ==
  /\ url \in pendingPut
  /\ pendingPut' = pendingPut \ {url}
  /\ caches' = CacheAdd(caches, {url})
  /\ written' = written \cup {url}
  /\ UNCHANGED <<swPhase, online, answered, appVars>>

\* the network goes away or comes back
SetOnline ==
  /\ online' = ~online
  /\ UNCHANGED <<swPhase, caches, pendingPut, written, answered, appVars>>

\* ------------------------------------------------------------------------
\* Initial state: after `new App()` (whose constructor calls _toggleSync())
\* ------------------------------------------------------------------------
Init ==
  /\ stepTimestamps = <<>>
  /\ spm = 0
  /\ stepCount = 0
  /\ smoothed = Gravity
  /\ baseline = Gravity
  /\ threshold = DefaultThreshold
  /\ lastStepTime = 0
  /\ aboveThreshold = FALSE
  /\ now = Epoch
  /\ sampleCount = 0
  /\ permissionAPI \in BOOLEAN
  /\ simMode \in BOOLEAN
  \* the constructor's _toggleSync(): sim path, sensor path without the
  \* permission API, or suspended in requestPermission()
  /\ syncing = (simMode \/ ~permissionAPI)
  /\ active = (simMode \/ ~permissionAPI)
  /\ listening = (~simMode /\ ~permissionAPI)
  /\ decayTimer = (IF simMode \/ ~permissionAPI THEN 1 ELSE 0)
  /\ timers = (IF simMode \/ ~permissionAPI THEN {1} ELSE {})
  /\ pendingStart = (IF ~simMode /\ permissionAPI THEN 1 ELSE 0)
  /\ phaseCorrection = 0
  /\ currentBeatOffset = Undefined
  /\ playlist = <<>>
  /\ currentTrackIndex = -1
  /\ tracks = [i \in 1..MaxTracks |-> NewTrack]
  /\ created = 0
  /\ pendingLoad = NoLoad
  /\ pendingDetect = {}
  /\ analysed = NoAudio
  /\ notified = <<>>
  /\ originalBPM = 0
  /\ targetRate = RateOne
  /\ currentRate = RateOne
  /\ minRate = DefaultMinRate
  /\ maxRate = DefaultMaxRate
  /\ smoothing = DefaultSmoothing
  /\ loaded = FALSE
  /\ playing = FALSE
  /\ rafId = FALSE
  /\ rafPending = FALSE
  /\ playbackRate = RateOne
  /\ taps = <<>>
  /\ swPhase = "parsed"
  /\ caches = [n \in {OldCacheName} |-> {"./", "./app.js"}]
  /\ online = TRUE
  /\ pendingPut = {}
  /\ written = {}
  /\ answered = NoAnswer

\* ------------------------------------------------------------------------
\* Specifications.  Every specification runs the same actions from the same
\* initial state; each one fixes the part of the environment it explores
\* (the platform, which events occur, how far the clock and the sensor run).
\* ------------------------------------------------------------------------

\* steps explored by the specifications of the detector
DetSteps == 5

\* The sensor path: a phone without the permission API, simMode initially
\* unchecked, clock steps of 140 ms up to SensorHorizon, at most
\* SensorSamples sensor events.
SensorHorizon == 840

SensorDeltas == {140, 280}

SensorSimSteps == 2

SensorSamples == 5

InitSensor == Init /\ ~permissionAPI /\ ~simMode

NextSensor ==
  \/ \E acc \in Samples : \E pos \in Positions :
       sampleCount < SensorSamples /\ stepCount < DetSteps /\ HandleMotion(acc, pos)
  \/ \E pos \in Positions :
       stepCount < SensorSimSteps /\ SimulateStep(pos)
  \/ \E v \in Thresholds : SetThreshold(v)
  \/ SetSimMode
  \/ \E d \in SensorDeltas : now + d <= Epoch + SensorHorizon /\ AdvanceClock(d)

SpecSensor == InitSensor /\ [][NextSensor]_vars

\* The step detector and its lifecycle on a platform without the permission
\* API, without playlist and playback events (none of which reads or writes
\* a StepDetector field); at most DetSamples sensor events.
DetSamples == 2

DetDeltas == {500, 3250}

InitDet == Init /\ ~permissionAPI

NextDet ==
  \/ \E acc \in Samples : \E pos \in Positions :
       sampleCount < DetSamples /\ stepCount < DetSteps /\ HandleMotion(acc, pos)
  \/ \E pos \in Positions : stepCount < DetSteps /\ SimulateStep(pos)
  \/ CheckDecay
  \/ SetSimMode
  \/ \E d \in DetDeltas : AdvanceClock(d)
  \/ ToggleSyncOff
  \/ ToggleSyncOnSim
  \/ ToggleSyncOnSensor

SpecDet == InitDet /\ [][NextDet]_vars

\* Simulated steps and the decay timer; setInterval keeps calling
\* _checkDecay while a timer is scheduled (weak fairness).
NextDecay ==
  \/ \E pos \in Positions : stepCount < DetSteps /\ SimulateStep(pos)
  \/ CheckDecay
  \/ SetSimMode
  \/ \E d \in DetDeltas : AdvanceClock(d)
  \/ ToggleSyncOff
  \/ ToggleSyncOnSim
  \/ ToggleSyncOnSensor

SpecDecay == InitDet /\ [][NextDecay]_vars /\ WF_vars(CheckDecay)

\* Tempo and rate in desktop simulation mode: Space-bar steps 400 ms apart,
\* files added one at a time, one detection result, one manual tempo inside
\* and one outside the accepted range.
AppHorizon == 1200

AppSteps == 4

AppTracks == 1

AppDeltas == {400}

AppPositions == IF loaded THEN {100, 350} ELSE {0}

ManualInputs == {30, 120, 220}

\* values of the minRate and maxRate sliders
MinRates == {RateScale \div 2, DefaultMinRate}

MaxRates == {DefaultMaxRate, 2 * RateScale}

DetectResults == {[bpm |-> 100, beatOffset |-> 100]}

\* the runner's cadence: one Space-bar step at every instant of the clock
StepPending ==
  IF stepTimestamps = <<>> THEN TRUE ELSE stepTimestamps[Len(stepTimestamps)] < now

InitApp == Init /\ ~permissionAPI /\ simMode

NextApp ==
  \/ \E pos \in AppPositions :
       stepCount < AppSteps /\ StepPending /\ SimulateStep(pos)
  \/ CheckDecay
  \/ \E d \in AppDeltas :
       now + d <= Epoch + AppHorizon /\ ~StepPending /\ AdvanceClock(d)
  \/ ToggleSyncOff
  \/ ToggleSyncOnSim
  \/ created < AppTracks /\ HandleFiles(1)
  \/ \E i \in 0..(MaxTracks - 1) : PlayTrack(i)
  \/ Ended
  \/ LoadDone
  \/ LoadError
  \/ \E p \in pendingDetect : \E res \in DetectResults : DetectDone(p, res)
  \/ \E p \in pendingDetect : DetectFail(p)
  \/ \E val \in ManualInputs : ManualBPM(val)
  \/ ClearPlaylist
  \/ \E v \in MinRates : SetMinRate(v)
  \/ \E v \in MaxRates : SetMaxRate(v)

SpecApp == InitApp /\ [][NextApp]_vars

\* Playback with the rate limits at their defaults: four Space-bar steps
\* 400 ms apart, one file, a manual tempo, one detection result, and the
\* animation frames of the smoothing loop.
PlayManualInputs == {220}

NextPlay ==
  \/ \E pos \in AppPositions :
       stepCount < AppSteps /\ StepPending /\ SimulateStep(pos)
  \/ \E d \in AppDeltas :
       now + d <= Epoch + AppHorizon /\ ~StepPending /\ AdvanceClock(d)
  \/ ToggleSyncOff
  \/ ToggleSyncOnSim
  \/ created < AppTracks /\ HandleFiles(1)
  \/ LoadDone
  \/ \E p \in pendingDetect : \E res \in DetectResults : DetectDone(p, res)
  \/ \E val \in PlayManualInputs : ManualBPM(val)
  \/ Play
  \/ Pause
  \/ Tick

SpecPlay == InitApp /\ [][NextPlay]_vars

\* The smoothing loop while playback runs (no pause): the cadence of SpecPlay
\* sets the target, the smoothing slider moves before playback starts, the
\* limit sliders move while the target stays inside the limits, and
\* requestAnimationFrame keeps calling _smoothLoop (weak fairness).
Smoothings == {DefaultSmoothing, 50, 100}

RateManualInputs == {120, 220}

NextRate ==
  \/ \E pos \in AppPositions :
       stepCount < AppSteps /\ StepPending /\ SimulateStep(pos)
  \/ \E d \in AppDeltas :
       now + d <= Epoch + AppHorizon /\ ~StepPending /\ AdvanceClock(d)
  \/ ToggleSyncOff
  \/ created < AppTracks /\ HandleFiles(1)
  \/ LoadDone
  \/ \E val \in RateManualInputs : ManualBPM(val)
  \/ \E v \in Smoothings : ~rafPending /\ SetSmoothing(v)
  \/ \E v \in MinRates : v <= targetRate /\ SetMinRate(v)
  \/ \E v \in MaxRates : v >= targetRate /\ SetMaxRate(v)
  \/ Tick

SpecRate == InitApp /\ [][NextRate]_vars /\ WF_vars(Tick)

\* Space-bar steps only, at any of the instants the clock reaches in steps
\* of 250, 500 and 1600 ms (intervals of 0 and 250 ms give more than 220
\* steps per minute, 1600 ms less than 40), with the decay timer.
SimDeltas == {250, 500, 1600}

NextSim ==
  \/ \E pos \in Positions : stepCount < DetSteps /\ SimulateStep(pos)
  \/ CheckDecay
  \/ \E d \in SimDeltas : AdvanceClock(d)

SpecSim == InitApp /\ [][NextSim]_vars

\* A periodic acceleration stream on the sensor path: at every instant a
\* spike of 19.81 m/s^2 followed by a dip to 5 m/s^2, then 500 ms without
\* motion; samples at rest (9.81 m/s^2) may come in between.
SpikeSample == [has |-> TRUE, x |-> 0, y |-> 0, z |-> Gravity + 10 * AccScale]

DipSample == [has |-> TRUE, x |-> 3 * AccScale, y |-> 4 * AccScale, z |-> 0]

RestSample == [has |-> TRUE, x |-> 0, y |-> 0, z |-> Gravity]

StreamDeltas == {500}

\* the spike of the current instant has not come yet
SpikeDue == ~aboveThreshold /\ lastStepTime < now

NextStream ==
  \/ SpikeDue /\ stepCount < DetSteps /\ HandleMotion(SpikeSample, 0)
  \/ aboveThreshold /\ stepCount < DetSteps /\ HandleMotion(DipSample, 0)
  \/ ~aboveThreshold /\ stepCount < DetSteps /\ HandleMotion(RestSample, 0)
  \/ CheckDecay
  \/ \E d \in StreamDeltas : lastStepTime = now /\ AdvanceClock(d)

SpecStream == InitSensor /\ [][NextStream]_vars

\* Beat-phase correction: Space-bar steps 400 ms apart read at any audio
\* position, up to MaxTracks files, their loads and analyses, a manual
\* tempo, track changes and clears, sync toggles.
PhaseManualInputs == {120}

NextPhase ==
  \/ \E pos \in Positions :
       stepCount < AppSteps /\ StepPending /\ SimulateStep(pos)
  \/ \E d \in AppDeltas :
       now + d <= Epoch + AppHorizon /\ ~StepPending /\ AdvanceClock(d)
  \/ ToggleSyncOff
  \/ ToggleSyncOnSim
  \/ HandleFiles(1)
  \/ NextTrack
  \/ PrevTrack
  \/ LoadDone
  \/ \E p \in pendingDetect : \E res \in DetectResults : DetectDone(p, res)
  \/ \E val \in PhaseManualInputs : ManualBPM(val)
  \/ ClearPlaylist

SpecPhase == InitApp /\ [][NextPhase]_vars

\* A platform with the permission API: sync toggles that suspend in
\* requestPermission(), its answers, sim-mode switches, a few steps.
PermSteps == 1

InitPerm == Init /\ permissionAPI

NextPerm ==
  \/ ToggleSyncOff
  \/ ToggleSyncOnSim
  \/ ToggleSyncRequest
  \/ \E permission \in Permissions : PermissionAnswer(permission)
  \/ SetSimMode
  \/ CheckDecay
  \/ \E acc \in Samples : \E pos \in Positions :
       sampleCount < DetSamples /\ stepCount < DetSteps /\ HandleMotion(acc, pos)
  \/ \E pos \in Positions : stepCount < PermSteps /\ SimulateStep(pos)
  \/ \E d \in DetDeltas : AdvanceClock(d)

SpecPerm == InitPerm /\ [][NextPerm]_vars

\* The playlist: up to MaxTracks files added one or two at a time, track
\* changes, clears, loads and tempo analyses completing in any order; no
\* steps (the rate target stays 1.0).
ListManualInputs == {120}

NextList ==
  \/ \E n \in 1..2 : HandleFiles(n)
  \/ \E i \in 0..(MaxTracks - 1) : PlayTrack(i)
  \/ PrevTrack
  \/ NextTrack
  \/ Ended
  \/ LoadDone
  \/ LoadError
  \/ \E p \in pendingDetect : \E res \in DetectResults : DetectDone(p, res)
  \/ \E p \in pendingDetect : DetectFail(p)
  \/ \E val \in ListManualInputs : ManualBPM(val)
  \/ ClearPlaylist
  \/ Play
  \/ Pause

SpecList == InitApp /\ [][NextList]_vars

\* the tempo analysis of loaded files: files are added, played, analysed
\* (every decoded-audio description of Audios), given a manual tempo, cleared
DetectManualInputs == {120}

NextDetect ==
  \/ (created < AppTracks /\ HandleFiles(1))
  \/ LoadDone
  \/ \E p \in pendingDetect : \E audio \in Audios : Analyse(p, audio)
  \/ \E val \in DetectManualInputs : ManualBPM(val)
  \/ ClearPlaylist

SpecDetect == InitApp /\ [][NextDetect]_vars

\* the tempo of one track: manual entries at and beyond the limits of the
\* input's test, taps 0, 300 and 2100 ms apart, analyses that succeed or fail
TempoHorizon == 2400

TempoTaps == 2

TempoDeltas == {300, 2100}

TempoManualInputs == {39, 40, 221}

NextTempo ==
  \/ (created < AppTracks /\ HandleFiles(1))
  \/ LoadDone
  \/ \E p \in pendingDetect : \E res \in DetectResults : DetectDone(p, res)
  \/ \E p \in pendingDetect : DetectFail(p)
  \/ \E val \in TempoManualInputs : ManualBPM(val)
  \/ (Len(taps) < TempoTaps /\ HandleTap)
  \/ \E d \in TempoDeltas : (now + d <= Epoch + TempoHorizon /\ AdvanceClock(d))
  \/ ClearPlaylist

SpecTempo == InitApp /\ [][NextTempo]_vars

\* two tracks and their analyses: files are added, tracks are switched,
\* analyses complete in any order with two different results or fail, a
\* tempo is typed or tapped, the playlist is cleared
TrackResults == {[bpm |-> 100, beatOffset |-> 100], [bpm |-> 150, beatOffset |-> 40]}

TrackManualInputs == {120}

TrackTaps == 2

TrackDeltas == {500}

TrackHorizon == 500

NextTracks ==
  \/ \E n \in 1..2 : HandleFiles(n)
  \/ \E i \in 0..(MaxTracks - 1) : PlayTrack(i)
  \/ LoadDone
  \/ \E p \in pendingDetect : \E res \in TrackResults : DetectDone(p, res)
  \/ \E p \in pendingDetect : DetectFail(p)
  \/ \E val \in TrackManualInputs : ManualBPM(val)
  \/ (Len(taps) < TrackTaps /\ HandleTap)
  \/ \E d \in TrackDeltas : (now + d <= Epoch + TrackHorizon /\ AdvanceClock(d))
  \/ ClearPlaylist

SpecTracks == InitApp /\ [][NextTracks]_vars

\* the service worker: install (with or without network), activation,
\* GET and POST requests for an asset, another resource and a blob: URL,
\* with the network up or down and cache writes completing at any time
FetchUrls == {"./app.js", "./tracks.json", "blob:track"}

FetchRequests == [url : FetchUrls, method : {"GET", "POST"}]

NextWorker ==
  \/ \E ok \in BOOLEAN : Install(ok)
  \/ Register
  \/ Activate
  \/ \E req \in FetchRequests : \E ok \in BOOLEAN : Fetch(req, ok)
  \/ \E url \in FetchUrls : CachePut(url)
  \/ SetOnline

SpecWorker == InitApp /\ [][NextWorker]_vars

\* a long run of steps: up to 32 simulated steps at two instants 3500 ms
\* apart, with decay checks and sync switched off and on in between
HistoryDeltas == {3500}

NextHistory ==
  \/ SimulateStep(0)
  \/ CheckDecay
  \/ \E d \in HistoryDeltas : AdvanceClock(d)
  \/ ToggleSyncOff
  \/ ToggleSyncOnSim

SpecHistory == InitApp /\ [][NextHistory]_vars

\* a regular cadence with at most one irregular interval: steps 300 ms apart
\* (200 SPM), one interval of the run may be 100 or 1200 ms instead
MedianBeat == 300

MedianOutliers == {100, 1200}

MedianSteps == 13

\* a step has been taken at the present instant
SteppedNow == stepTimestamps # <<>> /\ stepTimestamps[Len(stepTimestamps)] = now

\* every interval of the history so far is a regular one
Regular ==
  \A i \in 1..(Len(stepTimestamps) - 1) :
    stepTimestamps[i + 1] - stepTimestamps[i] = MedianBeat

NextMedian ==
  \/ (stepCount < MedianSteps /\ ~SteppedNow /\ SimulateStep(0))
  \/ (SteppedNow /\ AdvanceClock(MedianBeat))
  \/ \E d \in MedianOutliers : (SteppedNow /\ Regular /\ AdvanceClock(d))

SpecMedian == InitApp /\ [][NextMedian]_vars

\* ------------------------------------------------------------------------
\* Properties
\* ------------------------------------------------------------------------
LastStamp == stepTimestamps[Len(stepTimestamps)]

\* the step taken is an accepted sensor trigger
SensorAccept == sampleCount' # sampleCount /\ stepCount' # stepCount

\* C1: a falling-edge trigger of the sensor path is accepted only if Date.now()
\* is at least minStepInterval (280 ms) after lastStepTime, the time of the
\* previously accepted step, and after the newest timestamp of the history;
\* the accepted trigger becomes the new lastStepTime.
C1_SensorDebounce ==
  [][SensorAccept =>
       /\ now - lastStepTime >= minStepInterval
       /\ Len(stepTimestamps) > 0 => now - LastStamp >= minStepInterval
       /\ lastStepTime' = now]_vars

\* a sensor trigger was just accepted after an earlier accepted step
C1_Witness ==
  /\ ~simMode
  /\ notified # <<>>
  /\ Len(stepTimestamps) >= 2
  /\ sampleCount >= 4

\* C2 (as claimed): no step, injected ones included, is accepted less than
\* 280 ms after the previously accepted step.
C2_InjectedStepDebounced ==
  [][(stepCount' # stepCount /\ stepCount > 0) =>
       now - lastStepTime >= minStepInterval]_vars

DecayPending ==
  /\ Len(stepTimestamps) > 0
  /\ now - LastStamp > DecayMs
  /\ timers # {}

Decayed == spm = 0 /\ stepTimestamps = <<>>

\* C3: once more than 3000 ms have passed since the last accepted step while a
\* decay timer is scheduled, that situation ends; and it ends, unless a new
\* step is accepted or the timers are stopped, with spm = 0, an empty
\* history and onSPMChange(0).
C3_DecayEventually ==
  /\ DecayPending ~> ~DecayPending
  /\ [][(DecayPending /\ ~DecayPending' /\ stepCount' = stepCount /\ timers' # {})
          => (Decayed' /\ notified' = <<SpmNote(0)>>)]_vars

\* a decay has just zeroed an SPM history of at least 4 steps
C3_Witness ==
  /\ Decayed
  /\ notified = <<SpmNote(0)>>
  /\ stepCount >= MinStamps
  /\ now - lastStepTime > DecayMs

\* C4: spm is 0 or an integer in [40, 220].
C4_SpmRange == spm = 0 \/ (spm >= MinSPM /\ spm <= MaxSPM)

\* an SPM estimate was just published
C4_Witness == spm >= MinSPM /\ notified # <<>> /\ notified[1] = SpmNote(spm)

\* C5: an accepted step that leaves fewer than 4 timestamps in the history
\* leaves spm unchanged and delivers onStep only (no onSPMChange).
C5_NoEstimateBelowFour ==
  [][(stepCount' # stepCount /\ Len(stepTimestamps') < MinStamps) =>
       (spm' = spm /\ notified' = <<StepNote(stepCount')>>)]_vars

\* the first step after a decay cleared a history that had produced an estimate
C5_Witness ==
  /\ stepCount >= MinStamps + 1
  /\ Len(stepTimestamps) = 1
  /\ notified = <<StepNote(stepCount)>>
  /\ spm = 0

\* an SPM update with spm > 0 was delivered by the handler that just ran
SpmPublished == notified # <<>> /\ notified[1].kind = "spm" /\ notified[1].value > 0

\* C6: while sync is active, the track tempo is known and no beat-phase
\* anchor is set, an SPM update with spm > 0 sets
\* targetRate = max(minRate, min(maxRate, spm / originalBPM)).
C6_BaseRate ==
  [][(SpmPublished' /\ syncing /\ originalBPM > 0 /\ currentBeatOffset = Undefined)
       => targetRate' = Max2(minRate, Min2(maxRate,
                          RoundDiv(notified'[1].value * RateScale, originalBPM)))]_vars

\* tempo 120 and SPM 150 without anchor: targetRate = 1.25
C6_Witness ==
  /\ SpmPublished /\ notified[1].value = 150
  /\ syncing /\ originalBPM = 120 /\ currentBeatOffset = Undefined
  /\ targetRate = (125 * RateScale) \div 100

\* C7: whenever no track tempo is known (originalBPM is 0), targetRate is
\* 1.0, in every reachable state.
C7_NoTempoNoAdjustment == originalBPM = 0 => targetRate = RateOne

\* the step turns sync off
ToggledOff == syncing /\ ~syncing'

\* C8 as stated: immediately after sync is toggled off targetRate = 1.0,
\* currentRate = 1.0 and phaseCorrection = 0.
C8_ToggleOffResetsAll ==
  [][ToggledOff => (targetRate' = RateOne /\ currentRate' = RateOne
                      /\ phaseCorrection' = 0)]_vars

\* C8 as the code has it: the toggle-off sets targetRate = 1.0 and
\* phaseCorrection = 0 and leaves currentRate as it was (the smoothing loop
\* eases it back while playback runs).
C8_ToggleOffResetsTarget ==
  [][ToggledOff => (targetRate' = RateOne /\ phaseCorrection' = 0
                      /\ currentRate' = currentRate)]_vars

\* sync is off, the target is reset and currentRate is still away from 1.0
C8_Witness ==
  ~syncing /\ targetRate = RateOne /\ phaseCorrection = 0 /\ currentRate # RateOne

\* spm / originalBPM, times (1 + phaseCorrection) when an anchor is set:
\* the rate _updateTargetRate is asked for, before clamping
Requested ==
  LET base == RoundDiv(spm * RateScale, originalBPM)
  IN IF currentBeatOffset # Undefined
     THEN RoundDiv(base * (RateScale + phaseCorrection), RateScale)
     ELSE base

\* the handler that just ran derived targetRate from spm / originalBPM: it
\* published an SPM > 0, or registered a step while an anchor is set
JustDerived ==
  /\ notified # <<>>
  /\ syncing /\ spm > 0 /\ originalBPM > 0
  /\ (SpmPublished \/ currentBeatOffset # Undefined)

InLimits(r) == r >= minRate /\ r <= maxRate

\* C9: with minRate = 0.7 and maxRate = 1.4 every derived rate is clamped
\* (below 0.7 gives exactly 0.7, above 1.4 gives exactly 1.4), and
\* currentRate stays in [minRate, maxRate] after every tick.
C9_Clamped ==
  (minRate = DefaultMinRate /\ maxRate = DefaultMaxRate) =>
    /\ InLimits(targetRate)
    /\ InLimits(currentRate)
    /\ JustDerived =>
         /\ Requested < minRate => targetRate = minRate
         /\ Requested > maxRate => targetRate = maxRate
         /\ InLimits(Requested) => targetRate = Requested

\* a phase-corrected request above 1.4 was clamped to 1.4 and ticks have
\* moved currentRate towards it
C9_Witness ==
  /\ minRate = DefaultMinRate /\ maxRate = DefaultMaxRate
  /\ syncing /\ spm > 0 /\ originalBPM > 0 /\ currentBeatOffset # Undefined
  /\ Requested > maxRate /\ targetRate = maxRate
  /\ currentRate > RateOne

\* currentRate is within epsilon of targetRate
Settled == Abs(targetRate - currentRate) <= RateEpsilon

\* a step that leaves targetRate alone, inside the limits, neither moves
\* currentRate away from it nor across it
NoOvershoot ==
  (targetRate' = targetRate /\ InLimits(targetRate) /\ smoothing > 0 /\ smoothing <= 100)
    => /\ Abs(targetRate - currentRate') <= Abs(targetRate - currentRate)
       /\ currentRate <= targetRate => currentRate' <= targetRate
       /\ currentRate >= targetRate => currentRate' >= targetRate

\* C10: with targetRate constant inside [minRate, maxRate] and smoothing in
\* (0,1], ticks never increase |targetRate - currentRate|, never cross
\* targetRate, and while the loop runs currentRate eventually comes within
\* epsilon of targetRate.
C10_Converges == [][NoOvershoot]_vars /\ (rafPending ~> Settled)

\* the default smoothing has brought currentRate to within epsilon of 1.25
C10_Witness ==
  /\ rafPending /\ smoothing = DefaultSmoothing
  /\ targetRate = (125 * RateScale) \div 100
  /\ Settled /\ currentRate # targetRate /\ currentRate > RateOne

\* the track that is current, 0 when there is none
CurrentTrack == TrackAt(playlist, currentTrackIndex)

\* the analysis `p` completes in this step
Completes(p) == p \in pendingDetect /\ p \notin pendingDetect'

\* C11: a tempo analysis that completes for a track other than the current
\* one changes neither audioEngine.originalBPM nor the current beat offset.
C11_StaleResultDiscarded ==
  [][\A p \in pendingDetect :
       (Completes(p) /\ p.track # CurrentTrack)
         => (originalBPM' = originalBPM /\ currentBeatOffset' = currentBeatOffset)]_vars

\* C12: at most one decay timer is scheduled at a time, and while sync is
\* off no decay timer is scheduled.
C12_OneOwnedDecayTimer ==
  /\ Cardinality(timers) <= 1
  /\ ~syncing => timers = {}

\* the handler that just ran reported a denied permission
Denied == notified = <<AlertNote>>

DetectorIdle == ~listening /\ ~active /\ decayTimer = 0 /\ timers = {}

\* C13: when the motion permission is denied, start() fails and changes
\* nothing: an inactive detector stays inactive (no listener, active false,
\* no decay timer), sync stays off, the message is shown and no other state
\* changes.
C13_DeniedLeavesIdle ==
  [][PermissionAnswer("denied") =>
       /\ Denied'
       /\ UNCHANGED <<detVars, filterVars, active, decayTimer, listening, timers,
                      syncing, envVars, rateVars, tempoVars, listVars, engineVars,
                      settingVars, now, taps, swVars, sampleCount>>
       /\ (DetectorIdle /\ ~syncing) => (DetectorIdle' /\ ~syncing')]_vars

\* a denial has just been reported and the detector is idle, sync off
C13_Witness == Denied /\ DetectorIdle /\ ~syncing /\ pendingStart = 0

\* a step is accepted in this step
StepAccepted == stepCount' = stepCount + 1

\* the history has at least four timestamps and round(60000 / median
\* interval) is outside [40, 220] (a zero median gives Infinity)
SpmOutOfRange(stamps) ==
  /\ Len(stamps) >= MinStamps
  /\ \/ MedianInterval(stamps) = 0
     \/ RoundDiv(60000, MedianInterval(stamps)) < MinSPM
     \/ RoundDiv(60000, MedianInterval(stamps)) > MaxSPM

\* C14: when the SPM computed on an accepted step is outside [40,220]
\* (a zero median interval included), the previous spm is retained, no
\* onSPMChange is emitted, and the step is still counted and recorded.
C14_OutOfRangeRetained ==
  [][(StepAccepted /\ SpmOutOfRange(stepTimestamps')) =>
       /\ spm' = spm
       /\ notified' = <<StepNote(stepCount + 1)>>
       /\ stepTimestamps' = Append(stepTimestamps, now)
       /\ lastStepTime' = now]_vars

\* a published spm was retained by a step whose own estimate is out of range
C14_Witness ==
  /\ spm > 0
  /\ notified = <<StepNote(stepCount)>>
  /\ SpmOutOfRange(stepTimestamps)

\* the sensor sample of this step ends a spike: the deviation falls back
\* below the threshold
FallingEdge == aboveThreshold /\ ~aboveThreshold'

\* C15: for spikes 500 ms apart, each followed by a fall below the
\* threshold, every fall is an accepted step, and from the 4th accepted
\* step on every step reports spm = 120 (within 1) through onSPMChange.
C15_PeriodicStream ==
  [][/\ FallingEdge => StepAccepted
     /\ (StepAccepted /\ stepCount + 1 >= MinStamps) =>
          /\ notified' = <<SpmNote(spm'), StepNote(stepCount + 1)>>
          /\ spm' >= 119 /\ spm' <= 121]_vars

\* the 5th step of the stream has just reported 120
C15_Witness ==
  /\ stepCount = 5 /\ spm = 120
  /\ notified = <<SpmNote(120), StepNote(5)>>

\* (audioPosition - beatOffset) / P modulo 1, brought into (-1/2, 1/2], in
\* units of 1/60000 (P = 60000 / bpm ms)
SignedPhase(pos, off, bpm) ==
  LET r == ((pos - off) * bpm) % 60000
  IN IF 2 * r > 60000 THEN r - 60000 ELSE r

\* -0.4 * e for the audio position `pos`
ExpectedCorrection(pos) ==
  RoundDiv((0 - PhaseGainPc)
             * RoundDiv(SignedPhase(pos, currentBeatOffset, originalBPM) * RateScale, 60000),
           100)

\* (spm / originalBPM) * (1 + phaseCorrection), clamped, after the step
CorrectedRate ==
  Max2(minRate, Min2(maxRate,
    RoundDiv(RoundDiv(spm' * RateScale, originalBPM) * (RateScale + phaseCorrection'),
             RateScale)))

\* the step is accepted while sync is active and tempo and anchor are known
AnchoredStep ==
  StepAccepted /\ syncing /\ originalBPM > 0 /\ currentBeatOffset # Undefined

\* phaseCorrection after the step is -0.4 * e for the position read, in [-0.2, 0.2)
CorrectionSet ==
  /\ \E pos \in AudioPositions : phaseCorrection' = ExpectedCorrection(pos)
  /\ 5 * phaseCorrection' >= 0 - RateScale
  /\ 5 * phaseCorrection' < RateScale

\* C16 as stated: on each accepted step with sync, tempo and anchor,
\* phaseCorrection = -0.4 e with e in (-0.5, 0.5] and
\* targetRate = clamp((spm / originalBPM) (1 + phaseCorrection)).
C16_PhaseCorrectedRate ==
  [][AnchoredStep => (CorrectionSet /\ targetRate' = CorrectedRate)]_vars

\* C16 as the code has it: the same, with targetRate = 1.0 while no SPM
\* estimate exists yet (spm = 0).
C16_PhaseCorrectedRateWithSpm ==
  [][AnchoredStep =>
       /\ CorrectionSet
       /\ spm' > 0 => targetRate' = CorrectedRate
       /\ spm' = 0 => targetRate' = RateOne]_vars

\* a step with anchor has just set a non-zero correction and a corrected
\* rate inside the limits
C16_Witness ==
  /\ notified # <<>> /\ syncing /\ spm > 0 /\ originalBPM > 0
  /\ currentBeatOffset # Undefined
  /\ phaseCorrection < 0
  /\ targetRate > minRate /\ targetRate < maxRate /\ targetRate # RateOne
  /\ targetRate # RoundDiv(spm * RateScale, originalBPM)

\* C17: while the beat offset is undefined an accepted step leaves
\* phaseCorrection alone, and targetRate is either left alone or, when an
\* SPM is published, set to clamp(spm / originalBPM) without phase term
\* (1.0 without tempo), whatever phaseCorrection holds.
C17_NoAnchorNoPhase ==
  [][(StepAccepted /\ currentBeatOffset = Undefined) =>
       /\ phaseCorrection' = phaseCorrection
       /\ targetRate' =
            IF SpmPublished' /\ syncing
            THEN IF originalBPM = 0 THEN RateOne
                 ELSE Max2(minRate, Min2(maxRate, RoundDiv(spm' * RateScale, originalBPM)))
            ELSE targetRate]_vars

\* an SPM was published without anchor while a non-zero correction is stored
C17_Witness ==
  /\ SpmPublished /\ syncing /\ currentBeatOffset = Undefined
  /\ originalBPM > 0 /\ phaseCorrection # 0
  /\ targetRate = RoundDiv(spm * RateScale, originalBPM)

\* the analysis `p` completes in this step with a result (no rejection)
Succeeds(p) == Completes(p) /\ tracks'[p.track].bpm # 0

\* C18: every successful detect() returns a whole bpm in [60,200] and a
\* beatOffset in [0, 60/bpm) seconds, whatever the score table, also after
\* the half-tempo or double-tempo substitution.
C18_ResultInRange ==
  [][\A p \in pendingDetect :
       Succeeds(p) =>
         LET res == tracks'[p.track]
         IN /\ res.bpm \in 60..200
            /\ res.beatOffset >= 0
            /\ res.beatOffset * res.bpm < 60000]_vars

\* a half-tempo substitution produced a result whose offset was folded into
\* the beat period of the substituted tempo
C18_Witness ==
  /\ analysed.decodable
  /\ analysed.duration = 120000
  /\ BestCandidate(ScoreTable(analysed)) = 200
  /\ \E t \in DOMAIN tracks : tracks[t].bpm = 100 /\ tracks[t].beatOffset > 0

\* min(30 s, duration - min(15 s, 15% of duration)) < 5 s, in ms * 100
WindowTooShort(duration) ==
  LET skip100 == IF 15 * duration < 1500000 THEN 15 * duration ELSE 1500000
      rest100 == 100 * duration - skip100
  IN (IF rest100 < 3000000 THEN rest100 ELSE 3000000) < 500000

\* C19: detect() fails whenever the usable analysis window is shorter than
\* 5 s and never fails for that reason otherwise; on any failure the caller
\* leaves the track's tempo unset, clears its detecting flag and does not
\* change audioEngine.originalBPM.
C19_ShortWindowFails ==
  [][\A p \in pendingDetect :
       Completes(p) =>
         LET failed == ~Succeeds(p)
         IN /\ WindowTooShort(analysed'.duration) => failed
            /\ (analysed'.decodable /\ ~WindowTooShort(analysed'.duration)) => ~failed
            /\ failed => /\ tracks'[p.track] = NewTrack
                         /\ originalBPM' = originalBPM]_vars

\* an analysis of a 5.88 s file (usable window 4.998 s) failed after a
\* manual tempo had been entered: the track's tempo is unset again, the
\* engine's tempo is still the manual one
C19_Witness ==
  /\ analysed.decodable
  /\ analysed.duration = 5880
  /\ pendingDetect = {}
  /\ CurrentTrack # 0
  /\ tracks[CurrentTrack] = NewTrack
  /\ originalBPM = 120

\* C20: the half-tempo candidate is preferred whenever its score is at least
\* 85% of the winner's and the half tempo is at least 80 BPM (in particular
\* 200 resolves to 100), and the winner is kept when the half tempo is below
\* 80 BPM.
C20_HalfTempoPreferred ==
  [][\A p \in pendingDetect :
       Succeeds(p) =>
         LET scores == ScoreTable(analysed')
             winner == BestCandidate(scores)
             half == RoundDiv(winner, 2)
             got == tracks'[p.track].bpm
         IN /\ (half >= 80 /\ 100 * scores[half] >= 85 * scores[winner]) => got = half
            /\ half < 80 => got = winner]_vars

\* C21: a track tempo outside [60,200] BPM is rejected and the previous valid
\* value retained: audioEngine.originalBPM is either 0 (unset) or within
\* [60,200].
C21_TempoInPolicyRange == originalBPM = 0 \/ originalBPM \in 60..200

\* C22: stopping sync resets the step detector's buffers: after stop() the
\* timestamp history is empty and spm is 0 (so that an SPM published after a
\* later restart is never computed from timestamps recorded before the stop).
C22_StopResetsBuffers ==
  [][ToggledOff => (stepTimestamps' = <<>> /\ spm' = 0)]_vars

\* a detection has stored its result on track t
Stored(t) == tracks[t].beatOffset # Undefined

\* the step is a manual tempo entry accepted for the current track t
ManualEntry(t) ==
  /\ t = CurrentTrack
  /\ tracks'[t].bpm \in 40..220
  /\ originalBPM' = tracks'[t].bpm
  /\ UNCHANGED <<pendingDetect, pendingLoad, playlist, currentTrackIndex>>

\* no analysis of track t is started by the step
NoNewAnalysis(t) ==
  /\ ~tracks'[t].detecting
  /\ \A p \in pendingDetect' : p.track # t

C24_AnalysesIndependent ==
  [][\A p \in pendingDetect :
       Completes(p) =>
         /\ \A t \in DOMAIN tracks : t # p.track => tracks'[t] = tracks[t]
         /\ ~tracks'[p.track].detecting
         /\ \/ tracks'[p.track] = NewTrack
            \/ [bpm |-> tracks'[p.track].bpm,
                beatOffset |-> tracks'[p.track].beatOffset] \in TrackResults]_vars

\* one of two concurrent analyses has completed, for a track that is no
\* longer at the playlist position it was started for; the other still runs
C24_Witness ==
  /\ Cardinality(pendingDetect) = 1
  /\ \E p \in pendingDetect : tracks[p.track].detecting
  /\ \E t \in DOMAIN tracks :
       /\ Stored(t)
       /\ ~tracks[t].detecting
       /\ \A i \in 1..Len(playlist) : playlist[i] # t

\* the step runs _smoothLoop: a scheduled frame, or the direct call of
\* _startSmoothing
SmoothLoopRuns == Tick \/ (~rafId /\ rafId')

\* C25: the smoothed rate is written to the audio output only when it
\* differs from the applied playback rate by more than 0.002; after every
\* tick |audio.playbackRate - currentRate| <= 0.002, and a tick whose
\* currentRate is within 0.002 of the applied rate leaves it unchanged.
C25_WriteOnlyBeyondEpsilon ==
  [][/\ SmoothLoopRuns =>
          /\ Abs(playbackRate' - currentRate') <= (2 * RateScale) \div 1000
          /\ Abs(playbackRate - currentRate') <= (2 * RateScale) \div 1000 => playbackRate' = playbackRate
          /\ Abs(playbackRate - currentRate') > (2 * RateScale) \div 1000 => playbackRate' = currentRate'
     /\ playbackRate' # playbackRate => SmoothLoopRuns]_vars

\* a tick has moved currentRate without writing it to the output, after an
\* earlier write
C25_Witness ==
  /\ playing
  /\ playbackRate # RateOne
  /\ playbackRate # currentRate
  /\ Abs(playbackRate - currentRate) <= (2 * RateScale) \div 1000

\* C26: the SPM estimate is only updated when at least 4 recent step
\* intervals are available, i.e. at least 5 stored step timestamps.
C26_UpdateNeedsFourIntervals ==
  [][(StepAccepted /\ SpmPublished') => Len(stepTimestamps') >= 5]_vars

\* no cache holds, and no cache write is under way for, a blob: URL
BlobNeverCached ==
  /\ \A n \in DOMAIN caches : \A url \in caches[n] : ~IsBlob(url)
  /\ \A url \in pendingPut : ~IsBlob(url)

\* the request is one the installed worker has pre-cached, or one whose
\* cache write after a successful network answer has completed
KnownOffline(req) ==
  /\ req.method = "GET"
  /\ ~IsBlob(req.url)
  /\ \/ (swPhase \in {"installed", "activated"} /\ req.url \in ASSETS)
     \/ req.url \in written

\* C27: once the worker has installed (pre-caching the listed assets) or a
\* GET request has been answered successfully from the network and its cache
\* write has completed, a later fetch of the same request while the network
\* fails is answered from the cache; requests to blob: URLs are never
\* intercepted or cached.
C27_OfflineFromCache ==
  /\ []BlobNeverCached
  /\ [][\A req \in FetchRequests : \A ok \in BOOLEAN :
          Fetch(req, ok) =>
            /\ (KnownOffline(req) /\ ~online) => answered'.from = "cache"
            /\ IsBlob(req.url) => (answered'.from = "browser"
                                     /\ UNCHANGED <<caches, pendingPut>>)]_vars

\* with the network down, a request that is no listed asset was answered
\* from the cache, and so was a listed asset
C27_Witness ==
  /\ ~online
  /\ answered = [url |-> "./tracks.json", method |-> "GET", from |-> "cache"]
  /\ "./tracks.json" \in written
  /\ DOMAIN caches = {CACHE_NAME}

\* the step processes a devicemotion sample that carries acceleration data
SampleProcessed == sampleCount' = sampleCount + 1

\* C28: the sensor path triggers a step only on a falling edge: a sample with
\* deviation > threshold sets the flag and never registers a step; a sample
\* with deviation <= threshold clears the flag whether or not the debounce
\* accepts, and registers a step only if the flag was set (and then exactly
\* when the debounce accepts); the flag is set by such samples only.
C28_FallingEdgeOnly ==
  [][/\ SampleProcessed =>
          LET deviation == smoothed' - baseline'
          IN /\ deviation > threshold => (aboveThreshold' /\ stepCount' = stepCount)
             /\ deviation <= threshold =>
                  /\ ~aboveThreshold'
                  /\ stepCount' # stepCount => aboveThreshold
                  /\ (aboveThreshold /\ now - lastStepTime >= 280) => StepAccepted
     /\ (~aboveThreshold /\ aboveThreshold') =>
          (SampleProcessed /\ smoothed' - baseline' > threshold)]_vars

\* a dip of the magnitude after a spike: the second falling edge of the
\* run was accepted as the second step
C28_Witness ==
  /\ ~simMode
  /\ ~aboveThreshold
  /\ smoothed < baseline
  /\ stepCount = 2
  /\ lastStepTime = now
  /\ notified = <<StepNote(2)>>

\* the newest n entries of q
Newest(q, n) == IF Len(q) <= n THEN q ELSE SubSeq(q, Len(q) - n + 1, Len(q))

\* C29: the step history is a bounded FIFO: it holds at most 30 timestamps,
\* they are the most recently accepted steps since the last decay in
\* acceptance order, each accepted step increments stepCount by exactly 1,
\* and stepCount is never reset by decay or stop.
C29_BoundedFifo ==
  /\ [](Len(stepTimestamps) <= 30)
  /\ [][/\ stepCount' = stepCount \/ stepCount' = stepCount + 1
        /\ StepAccepted => stepTimestamps' = Newest(Append(stepTimestamps, now), 30)
        /\ ~StepAccepted => (stepTimestamps' = stepTimestamps
                               \/ (notified' = <<SpmNote(0)>> /\ stepTimestamps' = <<>>))]_vars

\* the 31st and later steps of a run have pushed the oldest timestamps out
C29_Witness ==
  /\ stepCount = 32
  /\ Len(stepTimestamps) = 30
  /\ stepTimestamps[1] = Epoch
  /\ stepTimestamps[25] = Epoch + 3500
  /\ ~syncing

\* the consecutive differences of the newest (up to) 12 timestamps
RecentIntervals(stamps) ==
  LET s == Newest(stamps, 12)
  IN [i \in 1..(Len(s) - 1) |-> s[i + 1] - s[i]]

\* C30: the SPM estimate uses the median of the consecutive intervals of the
\* last (up to) 12 timestamps and is robust to one outlier: whenever the
\* considered intervals (3 to 11 of them) all equal d except at most one, the
\* published SPM is round(60000 / d).
C30_MedianRobust ==
  [][StepAccepted =>
       LET iv == RecentIntervals(stepTimestamps')
       IN \A i \in 1..Len(iv) :
            (/\ Len(iv) >= 3
             /\ Cardinality({j \in 1..Len(iv) : iv[j] # iv[i]}) <= 1
             /\ iv[i] > 0
             /\ RoundDiv(60000, iv[i]) \in 40..220)
              => (spm' = RoundDiv(60000, iv[i]) /\ SpmPublished'
                    /\ notified'[1].value = spm')]_vars

\* eleven considered intervals, one of them a 1200 ms outlier, gave 200
C30_Witness ==
  /\ Len(stepTimestamps) = 12
  /\ \E i \in 1..11 : stepTimestamps[i + 1] - stepTimestamps[i] = 1200
  /\ spm = 200
  /\ notified = <<SpmNote(200), StepNote(12)>>

\* ------------------------------------------------------------------------
\* The walker stops
\* ------------------------------------------------------------------------
\* Space-bar steps 400 ms apart, then more than 3 s without a step, the decay
\* timer, one file with a detected tempo and anchor, and the animation frames
\* of the smoothing loop (weak fairness), which play() starts when the file
\* has loaded.
StopSteps == 5

StopDeltas == {400, 3050}

NextStop ==
  \/ \E pos \in AppPositions :
       stepCount < StopSteps /\ StepPending /\ SimulateStep(pos)
  \/ \E d \in StopDeltas : ~StepPending /\ AdvanceClock(d)
  \/ CheckDecay
  \/ created < AppTracks /\ HandleFiles(1)
  \/ LoadDone
  \/ \E p \in pendingDetect : \E res \in DetectResults : DetectDone(p, res)
  \/ Tick

SpecStop == InitApp /\ [][NextStop]_vars /\ WF_vars(Tick)

\* the decay timer has just published spm = 0
DecayPublished == notified = <<SpmNote(0)>>

\* C31: when a decay event publishes spm = 0 while sync is active, targetRate
\* is set to 1.0 and phaseCorrection to 0; targetRate then stays 1.0 until a
\* new in-range SPM is published; and while playback runs currentRate
\* eventually returns to within epsilon of 1.0.
C31_WalkingStopped ==
  /\ [][(syncing /\ DecayPublished') => (targetRate' = RateOne /\ phaseCorrection' = 0)]_vars
  /\ [][(spm = 0 /\ targetRate = RateOne /\ ~SpmPublished') => targetRate' = RateOne]_vars
  /\ (DecayPublished /\ syncing /\ rafPending)
       ~> (Abs(currentRate - RateOne) <= RateEpsilon \/ spm > 0 \/ ~playing)

\* the decay found the music sped up and a phase correction in effect
C31_Witness ==
  /\ DecayPublished /\ syncing /\ playing /\ rafPending
  /\ currentRate > RateOne + RateEpsilon
  /\ targetRate = RateOne /\ phaseCorrection = 0
  /\ currentBeatOffset # Undefined

\* ------------------------------------------------------------------------
\* A cadence that changes
\* ------------------------------------------------------------------------
\* Space-bar steps 500 or 600 ms apart (120 or 100 steps per minute) at the
\* audio positions of the other specifications, one file with a detected
\* tempo of 100 and its anchor.
OrderSteps == 6

OrderHorizon == 2800

OrderDeltas == {500, 600}

NextOrder ==
  \/ \E pos \in Positions :
       stepCount < OrderSteps /\ StepPending /\ SimulateStep(pos)
  \/ \E d \in OrderDeltas :
       now + d <= Epoch + OrderHorizon /\ ~StepPending /\ AdvanceClock(d)
  \/ created < AppTracks /\ HandleFiles(1)
  \/ LoadDone
  \/ \E p \in pendingDetect : \E res \in DetectResults : DetectDone(p, res)

SpecOrder == InitApp /\ [][NextOrder]_vars

\* clamp((v / originalBPM) * (1 + pc)) for the current tempo and limits
RateFor(v, pc) ==
  Clamp(RoundDiv(RoundDiv(v * RateScale, originalBPM) * (RateScale + pc), RateScale),
        minRate, maxRate)

\* C32: within one step acceptance the SPM notification precedes the step
\* notification, and when the acceptance completes with sync active, tempo
\* and anchor known and spm > 0, targetRate is
\* clamp((new spm / originalBPM) * (1 + the correction of this step)).
C32_SpmBeforeStep ==
  [][StepAccepted =>
       /\ notified' \in {<<StepNote(stepCount')>>,
                         <<SpmNote(spm'), StepNote(stepCount')>>}
       /\ (AnchoredStep /\ spm' > 0) =>
            \E pos \in AudioPositions :
              /\ phaseCorrection' = ExpectedCorrection(pos)
              /\ targetRate' = RateFor(spm', ExpectedCorrection(pos))]_vars

\* the sixth step raised the estimate from 100 to 120 and set a correction:
\* the rate is 1.2 * (1 + correction), not 1.0 * (1 + correction)
C32_Witness ==
  /\ notified = <<SpmNote(120), StepNote(6)>>
  /\ Len(stepTimestamps) = 6
  /\ stepTimestamps[3] - stepTimestamps[2] = 600
  /\ stepTimestamps[4] - stepTimestamps[3] = 600
  /\ syncing /\ originalBPM = 100 /\ currentBeatOffset # Undefined
  /\ phaseCorrection # 0
  /\ targetRate = RateFor(120, phaseCorrection)
  /\ targetRate # RateFor(100, phaseCorrection)

\* w has the highest score of the table and is the lowest such candidate
OriginalWinner(scores, w) ==
  /\ \A c \in 60..200 : scores[c] <= scores[w]
  /\ \A c \in 60..(w - 1) : scores[c] < scores[w]

\* C33: for every table of non-negative candidate scores the bpm returned by
\* detect is the highest-scoring candidate in [60,200] (the lowest among
\* equal maxima) or that candidate's rounded half, the half only when its
\* score exceeds 85% of the original winner's score and it is at least 80.
C33_WinnerOrHalf ==
  [][\A p \in pendingDetect :
       Succeeds(p) =>
         LET scores == ScoreTable(analysed')
             got == tracks'[p.track].bpm
         IN \E w \in 60..200 :
              /\ OriginalWinner(scores, w)
              /\ got \in {w, RoundDiv(w, 2)}
              /\ got # w => /\ got >= 80
                            /\ 100 * scores[got] > 85 * scores[w]]_vars

\* two equal maxima at 158 and 159: the lower one won, and its half (79)
\* was not taken although it scores as high as the winner
C33_Witness ==
  /\ analysed.decodable
  /\ analysed.peak1 = 158 /\ analysed.peak2 = 159
  /\ analysed.score1 = 100 /\ analysed.score2 = 100
  /\ pendingDetect = {}
  /\ \E t \in DOMAIN tracks : tracks[t].bpm = 158 /\ tracks[t].beatOffset # Undefined

\* ------------------------------------------------------------------------
\* Sync switched off and on while the cadence drives the rate
\* ------------------------------------------------------------------------
\* A platform with the permission API and a manual tempo of 120: sync
\* toggles in both modes, permission answers, Space-bar steps 400 ms apart
\* (150 steps per minute gives a target of 1.25), a few sensor samples, a
\* pause of more than 3 s and the decay timers.
OffSteps == 4

OffSamples == 2

OffDeltas == {400, 3050}

OffManualInputs == {120}

NextOff ==
  \/ ToggleSyncOff
  \/ ToggleSyncOnSim
  \/ ToggleSyncRequest
  \/ \E permission \in Permissions : PermissionAnswer(permission)
  \/ SetSimMode
  \/ CheckDecay
  \/ \E acc \in Samples :
       sampleCount < OffSamples /\ stepCount < OffSteps /\ HandleMotion(acc, 0)
  \/ stepCount < OffSteps /\ StepPending /\ SimulateStep(0)
  \/ \E d \in OffDeltas : ~StepPending /\ AdvanceClock(d)
  \/ \E val \in OffManualInputs : ManualBPM(val)

SpecOff == InitPerm /\ [][NextOff]_vars

\* C34: in every reachable state in which sync is off, targetRate is 1.0.
C34_OffMeansUnitRate == ~syncing => targetRate = RateOne

\* sync was switched off while the cadence had the target at 1.25; the
\* detector keeps its estimate, a permission request is still pending
C34_Witness ==
  /\ ~syncing /\ targetRate = RateOne
  /\ spm = 150 /\ originalBPM = 120
  /\ pendingStart > 0
  /\ timers # {}

\* ------------------------------------------------------------------------
\* The smoothing loop across the events of the playlist
\* ------------------------------------------------------------------------
\* The playlist of SpecList together with the animation frames.
NextLoop ==
  \/ \E n \in 1..2 : HandleFiles(n)
  \/ \E i \in 0..(MaxTracks - 1) : PlayTrack(i)
  \/ PrevTrack
  \/ NextTrack
  \/ Ended
  \/ LoadDone
  \/ LoadError
  \/ ClearPlaylist
  \/ Play
  \/ Pause
  \/ Tick

SpecLoop == InitApp /\ [][NextLoop]_vars

\* C35: whenever audioEngine.playing is true the rate-smoothing loop is
\* alive, that is, a next call of _smoothLoop is scheduled, after any
\* sequence of play, pause, track-ended and track-advance events.
C35_LoopAliveWhilePlaying == playing => rafPending

\* the analyses in flight for the track record t
InFlight(t) == {p \in pendingDetect : p.track = t}

\* C36: at most one tempo analysis is in flight per track record; a track's
\* detecting flag is true exactly while an analysis of it is running; a
\* request to analyse a track whose flag is set starts nothing; and the flag
\* is cleared when the analysis ends, whether it succeeds or fails.
C36_OneAnalysisPerTrack ==
  /\ [](\A t \in DOMAIN tracks :
          /\ Cardinality(InFlight(t)) <= 1
          /\ tracks[t].detecting <=> InFlight(t) # {})
  /\ [][\A t \in DOMAIN tracks :
          /\ tracks[t].detecting => InFlight(t)' \subseteq InFlight(t)
          /\ (InFlight(t) # {} /\ InFlight(t)' = {}) => ~tracks'[t].detecting]_vars

\* both tracks are being analysed, the first one is current again after the
\* second had been selected: its second request started nothing
C36_Witness ==
  /\ Len(playlist) = 2
  /\ currentTrackIndex = 0
  /\ pendingLoad = NoLoad
  /\ Cardinality(pendingDetect) = 2
  /\ \A t \in {playlist[1], playlist[2]} :
       tracks[t].detecting /\ Cardinality(InFlight(t)) = 1

\* C37: whenever a beat-phase anchor is in effect (current beat offset
\* defined), it is the beatOffset estimated together with the tempo in
\* originalBPM; in particular it lies in [0, 60/originalBPM) seconds, after
\* any sequence of track changes, detections and manual BPM entries.
C37_AnchorWithinBeat ==
  currentBeatOffset # Undefined =>
    /\ currentBeatOffset >= 0
    /\ currentBeatOffset * originalBPM < 60000

\* C38: a tempo entered manually for the current track while that track's
\* analysis is still running is not overwritten when the analysis completes:
\* afterwards originalBPM and the track's stored bpm still hold the user's
\* value.
C38_ManualSurvivesAnalysis ==
  [][\A p \in pendingDetect :
       (/\ Completes(p)
        /\ p.index = currentTrackIndex
        /\ p.track = CurrentTrack
        /\ tracks[p.track].bpm # 0)
         => /\ originalBPM' = originalBPM
            /\ tracks'[p.track].bpm = tracks[p.track].bpm]_vars

\* ------------------------------------------------------------------------
\* Tap tempo alone
\* ------------------------------------------------------------------------
\* Taps on the tap button, the first when the page opens, the following
\* ones 150, 2000 or 2001 ms after the previous one, or a second tap within
\* the same millisecond as the first.
TapHorizon == 4200

TapDeltas == {150, 2000, 2001}

\* the newest tap was made at the present instant
TappedNow == taps # <<>> /\ taps[Len(taps)] = now

NextTap ==
  \/ (~TappedNow \/ Len(taps) = 1) /\ HandleTap
  \/ \E d \in TapDeltas :
       TappedNow /\ now + d <= Epoch + TapHorizon /\ AdvanceClock(d)

SpecTap == InitApp /\ [][NextTap]_vars

\* round(60000 / mean interval) of the taps q, the mean being (last tap -
\* first tap) / (number of taps - 1); Infinity for a mean of 0
RoundedMeanTempo(q) ==
  IF q[Len(q)] = q[1] THEN Infinity
  ELSE RoundDiv(60000 * (Len(q) - 1), q[Len(q)] - q[1])

\* C39: a tap that is the first ever or comes more than 2000 ms after the
\* previous one discards all earlier taps and returns null (the tempo is left
\* alone); any other tap returns round(60000 / mean of the consecutive
\* intervals of the retained taps), the retained taps being the 12 most
\* recent ones at most, any two consecutive ones at most 2000 ms apart.
C39_TapTempo ==
  [][HandleTap =>
       LET fresh == taps = <<>> \/ now - taps[Len(taps)] > 2000
       IN /\ fresh => (taps' = <<now>> /\ originalBPM' = originalBPM)
          /\ ~fresh => /\ taps' = Newest(Append(taps, now), 12)
                       /\ originalBPM' = RoundedMeanTempo(taps')
          /\ \A i \in 1..(Len(taps') - 1) :
               taps'[i + 1] - taps'[i] \in 0..2000]_vars

\* the thirteenth tap of a run 150 ms apart pushed the first one out: twelve
\* taps are retained and the tempo is 400
C39_Witness ==
  /\ Len(taps) = 12
  /\ taps[1] = Epoch + 150
  /\ taps[12] = Epoch + 1800
  /\ originalBPM = 400

====
